---------------------------- MODULE Spec2Model ----------------------------
(***************************************************************************)
(* Model of the status-reporter sidecar: the monitoring engine             *)
(* (StatusReporter.Run with its two watcher goroutines), the artifact      *)
(* parser and the record validation that feed it.                          *)
(*                                                                         *)
(* Text is modelled as a sequence of bytes (0..255), as Go strings are, so *)
(* that trimming, truncation, formatting and substring tests are computed  *)
(* rather than assumed.  An error value is a record holding its Error()    *)
(* text and the chain of identities that errors.Is walks through Unwrap.   *)
(*                                                                         *)
(* Time is not measured: a ticker case can be taken whenever a watcher is  *)
(* in its select, and the deadline can pass at any moment, since Go        *)
(* promises nothing about the relative speed of goroutines and timers.     *)
(* Every file-system access and every collaborator call is a step of its   *)
(* own, so the artifact and the container can change between them.         *)
(*                                                                         *)
(* Spec is the engine; FairSpec is the engine under fair scheduling, for   *)
(* the liveness properties; ClientSpec is the k8s client's UpdateJobStatus *)
(* against a Job that other clients write to and that can be deleted.      *)
(* RecordSpec applies AdapterResult.Validate and truncateUTF8 to records   *)
(* drawn from a set of texts around the two limits; ConfigSpec is          *)
(* config.Load and Config.Validate, up to the durations main hands to the  *)
(* reporter, with the ints of the program kept at 64 bits; MainSpec is     *)
(* waitForCompletion with its signal channel, the reporter's done channel  *)
(* and the shutdown timer; PodSpec is the client's                         *)
(* GetAdapterContainerStatus over pods of up to MaxContainers containers.  *)
(***************************************************************************)
EXTENDS Integers, Sequences, FiniteSets, TLC

(***************************************************************************)
(* Text constants of the source, as byte sequences                         *)
(***************************************************************************)
\* "True"
ConditionStatusTrue ==
    <<84,114,117,101>>
\* "False"
ConditionStatusFalse ==
    <<70,97,108,115,101>>
\* "AdapterCrashed"
ReasonAdapterCrashed ==
    <<65,100,97,112,116,101,114,67,114,97,115,104,101,100>>
\* "AdapterOOMKilled"
ReasonAdapterOOMKilled ==
    <<65,100,97,112,116,101,114,79,79,77,75,105,108,108,101,100>>
\* "AdapterExitedWithError"
ReasonAdapterExitedWithError ==
    <<65,100,97,112,116,101,114,69,120,105,116,101,100,87,105,116,104,69,114,114,111,114>>
\* "AdapterTimeout"
ReasonAdapterTimeout ==
    <<65,100,97,112,116,101,114,84,105,109,101,111,117,116>>
\* "InvalidResultFormat"
ReasonInvalidResultFormat ==
    <<73,110,118,97,108,105,100,82,101,115,117,108,116,70,111,114,109,97,116>>
\* "AdapterMissingResults"
ReasonAdapterMissingResults ==
    <<65,100,97,112,116,101,114,77,105,115,115,105,110,103,82,101,115,117,108,116,115>>
\* "OOMKilled"
ContainerReasonOOMKilled ==
    <<79,79,77,75,105,108,108,101,100>>
\* "success"
StatusSuccess ==
    <<115,117,99,99,101,115,115>>
\* "failure"
StatusFailure ==
    <<102,97,105,108,117,114,101>>
\* "NoReasonProvided"
DefaultReason ==
    <<78,111,82,101,97,115,111,110,80,114,111,118,105,100,101,100>>
\* "No message provided"
DefaultMessage ==
    <<78,111,32,109,101,115,115,97,103,101,32,112,114,111,118,105,100,101,100>>
\* "/results/adapter-result.json"
resultsPath ==
    <<47,114,101,115,117,108,116,115,47,97,100,97,112,116,101,114,45,114,101,115,117,108,116,46,106,115,111,110>>
\* "Available"
conditionType ==
    <<65,118,97,105,108,97,98,108,101>>
\* "test-pod"
podName ==
    <<116,101,115,116,45,112,111,100>>
\* "failed to stat result file path="
FmtStatFailed ==
    <<102,97,105,108,101,100,32,116,111,32,115,116,97,116,32,114,101,115,117,108,116,32,102,105,108,101,32,112,97,116,104,61>>
\* ": "
FmtColon ==
    <<58,32>>
\* "failed to read result file path="
FmtReadFailed ==
    <<102,97,105,108,101,100,32,116,111,32,114,101,97,100,32,114,101,115,117,108,116,32,102,105,108,101,32,112,97,116,104,61>>
\* "result file is empty: path="
FmtFileEmpty ==
    <<114,101,115,117,108,116,32,102,105,108,101,32,105,115,32,101,109,112,116,121,58,32,112,97,116,104,61>>
\* "result file too large: path="
FmtTooLarge ==
    <<114,101,115,117,108,116,32,102,105,108,101,32,116,111,111,32,108,97,114,103,101,58,32,112,97,116,104,61>>
\* " size="
FmtSize ==
    <<32,115,105,122,101,61>>
\* " max="
FmtMax ==
    <<32,109,97,120,61>>
\* "failed to parse JSON: "
FmtParseJSON ==
    <<102,97,105,108,101,100,32,116,111,32,112,97,114,115,101,32,74,83,79,78,58,32>>
\* "invalid result format: "
FmtInvalidFormat ==
    <<105,110,118,97,108,105,100,32,114,101,115,117,108,116,32,102,111,114,109,97,116,58,32>>
\* "status"
FieldStatus ==
    <<115,116,97,116,117,115>>
\* "must be either '"
FmtMustBeEither ==
    <<109,117,115,116,32,98,101,32,101,105,116,104,101,114,32,39>>
\* "' or '"
FmtOr ==
    <<39,32,111,114,32,39>>
\* "'"
FmtQuote ==
    <<39>>
\* "parse failed: "
FmtParseFailed ==
    <<112,97,114,115,101,32,102,97,105,108,101,100,58,32>>
\* "failed to update job status: pod="
FmtUpdateFailedPod ==
    <<102,97,105,108,101,100,32,116,111,32,117,112,100,97,116,101,32,106,111,98,32,115,116,97,116,117,115,58,32,112,111,100,61>>
\* " condition="
FmtCondition ==
    <<32,99,111,110,100,105,116,105,111,110,61>>
\* "failed to update job status: "
FmtUpdateFailed ==
    <<102,97,105,108,101,100,32,116,111,32,117,112,100,97,116,101,32,106,111,98,32,115,116,97,116,117,115,58,32>>
\* "Failed to parse adapter result: "
FmtFailedToParse ==
    <<70,97,105,108,101,100,32,116,111,32,112,97,114,115,101,32,97,100,97,112,116,101,114,32,114,101,115,117,108,116,58,32>>
\* "Adapter did not produce results within "
FmtNoResultsWithin ==
    <<65,100,97,112,116,101,114,32,100,105,100,32,110,111,116,32,112,114,111,100,117,99,101,32,114,101,115,117,108,116,115,32,119,105,116,104,105,110,32>>
\* "timeout waiting for adapter results"
TextTimeoutWaiting ==
    <<116,105,109,101,111,117,116,32,119,97,105,116,105,110,103,32,102,111,114,32,97,100,97,112,116,101,114,32,114,101,115,117,108,116,115>>
\* "Adapter container was killed due to out of memory (OOMKilled)"
TextOOMKilled ==
    <<65,100,97,112,116,101,114,32,99,111,110,116,97,105,110,101,114,32,119,97,115,32,107,105,108,108,101,100,32,100,117,101,32,116,111,32,111,117,116,32,111,102,32,109,101,109,111,114,121,32,40,79,79,77,75,105,108,108,101,100,41>>
\* "Adapter container exited with code "
FmtExitedWithCode ==
    <<65,100,97,112,116,101,114,32,99,111,110,116,97,105,110,101,114,32,101,120,105,116,101,100,32,119,105,116,104,32,99,111,100,101,32>>
\* "Adapter container exited successfully (code 0) but did not produce a valid result file: "
FmtExitedZero ==
    <<65,100,97,112,116,101,114,32,99,111,110,116,97,105,110,101,114,32,101,120,105,116,101,100,32,115,117,99,99,101,115,115,102,117,108,108,121,32,40,99,111,100,101,32,48,41,32,98,117,116,32,100,105,100,32,110,111,116,32,112,114,111,100,117,99,101,32,97,32,118,97,108,105,100,32,114,101,115,117,108,116,32,102,105,108,101,58,32>>
\* "adapter container terminated: "
FmtTerminated ==
    <<97,100,97,112,116,101,114,32,99,111,110,116,97,105,110,101,114,32,116,101,114,109,105,110,97,116,101,100,58,32>>
\* "stat /results/adapter-result.json: no such file or directory"
TextStatNotExist ==
    <<115,116,97,116,32,47,114,101,115,117,108,116,115,47,97,100,97,112,116,101,114,45,114,101,115,117,108,116,46,106,115,111,110,58,32,110,111,32,115,117,99,104,32,102,105,108,101,32,111,114,32,100,105,114,101,99,116,111,114,121>>
\* "stat /results/adapter-result.json: permission denied"
TextStatDenied ==
    <<115,116,97,116,32,47,114,101,115,117,108,116,115,47,97,100,97,112,116,101,114,45,114,101,115,117,108,116,46,106,115,111,110,58,32,112,101,114,109,105,115,115,105,111,110,32,100,101,110,105,101,100>>
\* "open /results/adapter-result.json: no such file or directory"
TextOpenNotExist ==
    <<111,112,101,110,32,47,114,101,115,117,108,116,115,47,97,100,97,112,116,101,114,45,114,101,115,117,108,116,46,106,115,111,110,58,32,110,111,32,115,117,99,104,32,102,105,108,101,32,111,114,32,100,105,114,101,99,116,111,114,121>>
\* "open /results/adapter-result.json: permission denied"
TextOpenDenied ==
    <<111,112,101,110,32,47,114,101,115,117,108,116,115,47,97,100,97,112,116,101,114,45,114,101,115,117,108,116,46,106,115,111,110,58,32,112,101,114,109,105,115,115,105,111,110,32,100,101,110,105,101,100>>
\* "invalid character 'i' looking for beginning of object key string"
TextJSONSyntax ==
    <<105,110,118,97,108,105,100,32,99,104,97,114,97,99,116,101,114,32,39,105,39,32,108,111,111,107,105,110,103,32,102,111,114,32,98,101,103,105,110,110,105,110,103,32,111,102,32,111,98,106,101,99,116,32,107,101,121,32,115,116,114,105,110,103>>
\* "unexpected end of JSON input"
TextJSONEnd ==
    <<117,110,101,120,112,101,99,116,101,100,32,101,110,100,32,111,102,32,74,83,79,78,32,105,110,112,117,116>>
\* "k8s update failed"
TextPublishFailed ==
    <<107,56,115,32,117,112,100,97,116,101,32,102,97,105,108,101,100>>
\* "AllChecksPassed"
TextAllChecksPassed ==
    <<65,108,108,67,104,101,99,107,115,80,97,115,115,101,100>>
\* "All validations passed"
TextAllValidationsPassed ==
    <<65,108,108,32,118,97,108,105,100,97,116,105,111,110,115,32,112,97,115,115,101,100>>
\* "ValidationFailed"
TextValidationFailed ==
    <<86,97,108,105,100,97,116,105,111,110,70,97,105,108,101,100>>
\* "Some checks failed"
TextSomeChecksFailed ==
    <<83,111,109,101,32,99,104,101,99,107,115,32,102,97,105,108,101,100>>
\* "invalid"
TextInvalid ==
    <<105,110,118,97,108,105,100>>
\* "Test"
TextTest ==
    <<84,101,115,116>>
\* "Error"
TextError ==
    <<69,114,114,111,114>>
\* "Completed"
TextCompleted ==
    <<67,111,109,112,108,101,116,101,100>>

\* texts of the k8s client
\* "Unknown"
ConditionStatusUnknown ==
    <<85,110,107,110,111,119,110>>

\* "test-job"
jobName ==
    <<116,101,115,116,45,106,111,98>>

\* "test-namespace"
jobNamespace ==
    <<116,101,115,116,45,110,97,109,101,115,112,97,99,101>>

\* "invalid condition status: "
FmtInvalidConditionStatus ==
    <<105,110,118,97,108,105,100,32,99,111,110,100,105,116,105,111,110,32,115,116,97,116,117,115,58,32>>

\* " (expected True/False/Unknown)"
FmtExpectedStatus ==
    <<32,40,101,120,112,101,99,116,101,100,32,84,114,117,101,47,70,97,108,115,101,47,85,110,107,110,111,119,110,41>>

\* "job "
FmtJob ==
    <<106,111,98,32>>

\* "/"
FmtSlash ==
    <<47>>

\* " not found: "
FmtNotFound ==
    <<32,110,111,116,32,102,111,117,110,100,58,32>>

\* "jobs.batch "test-job" not found"
TextNotFound ==
    <<106,111,98,115,46,98,97,116,99,104,32,34,116,101,115,116,45,106,111,98,34,32,110,111,116,32,102,111,117,110,100>>

\* "the object has been modified"
TextConflict ==
    <<116,104,101,32,111,98,106,101,99,116,32,104,97,115,32,98,101,101,110,32,109,111,100,105,102,105,101,100>>

\* "Internal error occurred"
TextServerError ==
    <<73,110,116,101,114,110,97,108,32,101,114,114,111,114,32,111,99,99,117,114,114,101,100>>

\* "Complete"
JobTypeComplete ==
    <<67,111,109,112,108,101,116,101>>

\* "Failed"
JobTypeFailed ==
    <<70,97,105,108,101,100>>

(***************************************************************************)
(* Text helpers                                                            *)
(***************************************************************************)
\* concatenation of a sequence of texts (the effect of fmt.Sprintf on its
\* literal fragments and formatted arguments)
RECURSIVE Cat(_)

Cat(parts) ==
    IF parts = <<>> THEN <<>> ELSE Head(parts) \o Cat(Tail(parts))

\* decimal digits of a natural number (%d of a non-negative integer)
RECURSIVE Digits(_)
Digits(n) ==
    IF n < 10 THEN <<48 + n>> ELSE Digits(n \div 10) \o <<48 + (n % 10)>>

\* %d of a signed integer
Itoa(n) ==
    IF n < 0 THEN <<45>> \o Digits(0 - n) ELSE Digits(n)

\* strings.Contains / gomega ContainSubstring
Contains(s, sub) ==
    \E i \in 0..(Len(s) - Len(sub)) : SubSeq(s, i + 1, i + Len(sub)) = sub

\* s starts with / ends with w
HasPrefix(s, w) ==
    Len(w) <= Len(s) /\ SubSeq(s, 1, Len(w)) = w

HasSuffix(s, w) ==
    Len(w) <= Len(s) /\ SubSeq(s, Len(s) - Len(w) + 1, Len(s)) = w

\* UTF-8 encodings of the code points for which unicode.IsSpace is true
UnicodeSpaces ==
    {<<9>>, <<10>>, <<11>>, <<12>>, <<13>>, <<32>>, <<194,133>>, <<194,160>>,
     <<225,154,128>>, <<226,128,168>>, <<226,128,169>>, <<226,128,175>>,
     <<226,129,159>>, <<227,128,128>>}
    \cup {<<226,128,b>> : b \in 128..138}

RECURSIVE TrimLeft(_)
TrimLeft(s) ==
    IF \E w \in UnicodeSpaces : HasPrefix(s, w)
    THEN LET w == CHOOSE x \in UnicodeSpaces : HasPrefix(s, x)
         IN  TrimLeft(SubSeq(s, Len(w) + 1, Len(s)))
    ELSE s

RECURSIVE TrimRight(_)
TrimRight(s) ==
    IF \E w \in UnicodeSpaces : HasSuffix(s, w)
    THEN LET w == CHOOSE x \in UnicodeSpaces : HasSuffix(s, x)
         IN  TrimRight(SubSeq(s, 1, Len(s) - Len(w)))
    ELSE s

\* variant of TrimSpace: only leading white space is removed
TrimSpace_LeftOnly(s) ==
    TrimLeft(s)

\* strings.TrimSpace
TrimSpace(s) ==
    TrimRight(TrimLeft(s))

\* utf8.RuneStart: the byte is not a continuation byte (10xxxxxx)
RuneStart(b) ==
    b < 128 \/ b >= 192

\* variant of the truncateUTF8 loop: cuts at maxBytes without looking for
\* the start of a character
truncateScan_Plain(s, maxBytes) ==
    SubSeq(s, 1, maxBytes)

\* truncateUTF8: s[i] of the source is the byte at 0-based index i, i.e.
\* element i + 1 of the sequence.  The loop runs i down from maxBytes to 1
\* and returns s[:i] at the first i where s[i] starts a character; when no
\* such i exists it falls through to the empty text.
truncateScan(s, maxBytes) ==
    LET starts == {i \in 1..maxBytes : RuneStart(s[i + 1])}
    IN  IF starts = {} THEN <<>>
        ELSE LET i == CHOOSE j \in starts :
                          \A k \in (j + 1)..maxBytes : ~RuneStart(s[k + 1])
             IN  SubSeq(s, 1, i)

\* variant of truncateUTF8: a text that is too long is dropped
truncateUTF8_Drops(s, maxBytes) ==
    IF Len(s) <= maxBytes THEN s ELSE <<>>

truncateUTF8(s, maxBytes) ==
    IF Len(s) <= maxBytes THEN s ELSE truncateScan(s, maxBytes)

maxReasonLength ==
    128

maxMessageLength ==
    1024

maxResultFileSize ==
    1048576

(***************************************************************************)
(* Error values                                                            *)
(***************************************************************************)
\* the nil error
Nil ==
    [msg |-> <<>>, chain |-> <<>>]

\* errors.New(text), or an error value of the runtime with identity id
NewError(id, text) ==
    [msg |-> text, chain |-> <<id>>]

\* fmt.Errorf(prefix + "%w", err): the text is prefixed, the chain extended
Wrap(id, prefix, err) ==
    [msg |-> prefix \o err.msg, chain |-> <<id>> \o err.chain]

\* errors.Is(err, target) for a sentinel target
ErrorsIs(err, target) ==
    \E i \in 1..Len(err.chain) : err.chain[i] = target

\* identities of the sentinel errors of the runtime
ErrNotExist ==
    "os.ErrNotExist"

ErrPermission ==
    "os.ErrPermission"

(***************************************************************************)
(* Outcome record and its validation (pkg/result)                          *)
(***************************************************************************)
\* the zero AdapterResult (also stands for a nil *AdapterResult)
NoResult ==
    [status |-> <<>>, reason |-> <<>>, message |-> <<>>]

\* ResultError{Field, Message}.Error()
ResultErrorText(field, message) ==
    Cat(<<field, FmtColon, message>>)

\* variant of IsSuccess: compares with "Success"
IsSuccess_WrongCase(r) ==
    r.status = <<83,117,99,99,101,115,115>>

IsSuccess(r) ==
    r.status = StatusSuccess

\* Trimming and truncation without the default for an empty text.
Normalize_NoDefault(s, default, maxBytes) ==
    LET t == TrimSpace(s)
    IN  IF Len(t) > maxBytes THEN truncateUTF8(t, maxBytes) ELSE t

\* reason and message normalisation of Validate: trim, default, truncate
Normalize(s, default, maxBytes) ==
    LET t == TrimSpace(s)
        d == IF t = <<>> THEN default ELSE t
    IN  IF Len(d) > maxBytes THEN truncateUTF8(d, maxBytes) ELSE d

\* variant of Validate: normalises the reason and the message before it
\* checks the status
Validate_NormalizesFirst(r) ==
    LET n == [status  |-> r.status,
              reason  |-> Normalize(r.reason, DefaultReason, maxReasonLength),
              message |-> Normalize(r.message, DefaultMessage, maxMessageLength)]
    IN  IF r.status # StatusSuccess /\ r.status # StatusFailure
        THEN [err |-> NewError("result.ResultError",
                        ResultErrorText(FieldStatus,
                            Cat(<<FmtMustBeEither, StatusSuccess, FmtOr,
                                  StatusFailure, FmtQuote>>))),
              res |-> n]
        ELSE [err |-> Nil, res |-> n]

\* AdapterResult.Validate: the error and the record as left by the call
Validate(r) ==
    IF r.status # StatusSuccess /\ r.status # StatusFailure
    THEN [err |-> NewError("result.ResultError",
                    ResultErrorText(FieldStatus,
                        Cat(<<FmtMustBeEither, StatusSuccess, FmtOr,
                              StatusFailure, FmtQuote>>))),
          res |-> r]
    ELSE [err |-> Nil,
          res |-> [status  |-> r.status,
                   reason  |-> Normalize(r.reason, DefaultReason, maxReasonLength),
                   message |-> Normalize(r.message, DefaultMessage, maxMessageLength)]]

(***************************************************************************)
(* The artifact path on the shared file system                             *)
(***************************************************************************)
\* A state of the artifact path: absent, not accessible (stat fails with a
\* permission error), or a file of some size whose bytes either decode as
\* JSON into the three text fields or do not decode.
Absent ==
    [kind |-> "absent", size |-> 0, wellFormed |-> FALSE,
     status |-> <<>>, reason |-> <<>>, message |-> <<>>]

NoAccess ==
    [kind |-> "noaccess", size |-> 0, wellFormed |-> FALSE,
     status |-> <<>>, reason |-> <<>>, message |-> <<>>]

File(size, wellFormed, status, reason, message) ==
    [kind |-> "file", size |-> size, wellFormed |-> wellFormed,
     status |-> status, reason |-> reason, message |-> message]

\* {"status":"success","reason":"AllChecksPassed","message":"All validations passed"}
ArtifactSuccess ==
    File(82, TRUE, StatusSuccess, TextAllChecksPassed, TextAllValidationsPassed)

\* {"status":"failure","reason":"ValidationFailed","message":"Some checks failed"}
ArtifactFailure ==
    File(79, TRUE, StatusFailure, TextValidationFailed, TextSomeChecksFailed)

\* {"status":"success","reason":"  "}: reason blank, message missing
ArtifactBlank ==
    File(34, TRUE, StatusSuccess, <<32,32>>, <<>>)

\* {"status":"invalid","reason":"Test","message":"Test"}
ArtifactBadStatus ==
    File(53, TRUE, TextInvalid, TextTest, TextTest)

\* {invalid json
ArtifactBadJSON ==
    File(13, FALSE, <<>>, <<>>, <<>>)

\* the empty file
ArtifactEmpty ==
    File(0, FALSE, <<>>, <<>>, <<>>)

\* a valid success document padded beyond the size cap
ArtifactOversized ==
    File(maxResultFileSize + 1, TRUE, StatusSuccess, TextAllChecksPassed,
         TextAllValidationsPassed)

Artifacts ==
    {ArtifactSuccess, ArtifactFailure, ArtifactBlank, ArtifactBadStatus,
     ArtifactBadJSON, ArtifactEmpty, ArtifactOversized}

FileStates ==
    {Absent, NoAccess} \cup Artifacts

\* os.Stat(path): the error, Nil when the path can be examined
Stat(f) ==
    IF f.kind = "absent" THEN NewError(ErrNotExist, TextStatNotExist)
    ELSE IF f.kind = "noaccess" THEN NewError(ErrPermission, TextStatDenied)
    ELSE Nil

\* os.IsNotExist(err)
IsNotExist(err) ==
    ErrorsIs(err, ErrNotExist)

\* the decoder's diagnostic for bytes that are not a JSON document
JSONDiagnostic(f) ==
    IF f.size = 0 THEN TextJSONEnd ELSE TextJSONSyntax

\* Parser.Parse(data), data being the bytes of file f
Parse(f) ==
    IF ~f.wellFormed
    THEN [err |-> Wrap("result.Parse/json", FmtParseJSON,
                       NewError("json.SyntaxError", JSONDiagnostic(f))),
          res |-> NoResult]
    ELSE LET v == Validate([status |-> f.status, reason |-> f.reason,
                            message |-> f.message])
         IN  IF v.err # Nil
             THEN [err |-> Wrap("result.Parse/validate", FmtInvalidFormat, v.err),
                   res |-> NoResult]
             ELSE [err |-> Nil, res |-> v.res]

\* variant of ParseFileStat: the error of os.Stat is formatted into the
\* text (%v) and not wrapped
ParseFileStat_NoWrap(f) ==
    IF Stat(f) # Nil
    THEN NewError("result.ParseFile/stat",
                  Cat(<<FmtReadFailed, resultsPath, FmtColon, Stat(f).msg>>))
    ELSE IF f.size = 0
    THEN NewError("result.ParseFile/empty", Cat(<<FmtFileEmpty, resultsPath>>))
    ELSE IF f.size > maxResultFileSize
    THEN NewError("result.ParseFile/tooLarge",
                  Cat(<<FmtTooLarge, resultsPath, FmtSize, Itoa(f.size),
                        FmtMax, Itoa(maxResultFileSize)>>))
    ELSE Nil

\* Parser.ParseFile up to and including the size check, on the state f of
\* the path at the time of its os.Stat: the error, Nil to go on to the read
ParseFileStat(f) ==
    IF Stat(f) # Nil
    THEN Wrap("result.ParseFile/stat",
              Cat(<<FmtReadFailed, resultsPath, FmtColon>>), Stat(f))
    ELSE IF f.size = 0
    THEN NewError("result.ParseFile/empty", Cat(<<FmtFileEmpty, resultsPath>>))
    ELSE IF f.size > maxResultFileSize
    THEN NewError("result.ParseFile/tooLarge",
                  Cat(<<FmtTooLarge, resultsPath, FmtSize, Itoa(f.size),
                        FmtMax, Itoa(maxResultFileSize)>>))
    ELSE Nil

\* os.ReadFile(path): the error, Nil when the bytes were read
ReadFile(f) ==
    IF f.kind = "absent" THEN NewError(ErrNotExist, TextOpenNotExist)
    ELSE IF f.kind = "noaccess" THEN NewError(ErrPermission, TextOpenDenied)
    ELSE Nil

\* Parser.ParseFile from os.ReadFile on, on the state f of the path at the
\* time of the read
ParseFileRead(f) ==
    IF ReadFile(f) # Nil
    THEN [err |-> Wrap("result.ParseFile/read",
                       Cat(<<FmtReadFailed, resultsPath, FmtColon>>), ReadFile(f)),
          res |-> NoResult]
    ELSE Parse(f)

\* ParseFileRead, tabulated over the states the results path can be in
ParseFileReadOf ==
    [f \in FileStates |-> ParseFileRead(f)]

\* Parser.ParseFile when the path does not change during the call
ParseFile(f) ==
    IF ParseFileStat(f) # Nil
    THEN [err |-> ParseFileStat(f), res |-> NoResult]
    ELSE ParseFileRead(f)

\* ParseFile, tabulated over the states the results path can be in
ParseFileOf ==
    [f \in FileStates |-> ParseFile(f)]

(***************************************************************************)
(* Container state and conditions                                          *)
(***************************************************************************)
\* corev1.ContainerStateTerminated{Reason, ExitCode}
Terminated(reason, exitCode) ==
    [kind |-> "terminated", reason |-> reason, exitCode |-> exitCode]

Running ==
    [kind |-> "running", reason |-> <<>>, exitCode |-> 0]

\* the termination infos of the tests, and an out-of-memory kill reported
\* with exit code 0
TermInfos ==
    {Terminated(ContainerReasonOOMKilled, 137),
     Terminated(ContainerReasonOOMKilled, 0),
     Terminated(TextError, 1),
     Terminated(TextCompleted, 0)}

\* k8s.JobCondition (LastTransitionTime is left zero by the reporter)
JobCondition(type, status, reason, message) ==
    [type |-> type, status |-> status, reason |-> reason, message |-> message]

DefaultMaxWaitTimeSeconds ==
    300

\* variant of DurationString: the number of seconds, as %d would print it
DurationString_Seconds(seconds) ==
    Digits(seconds)

\* time.Duration.String() of a positive whole number of seconds
DurationString(seconds) ==
    LET s == seconds % 60
        m == (seconds \div 60) % 60
        h == seconds \div 3600
    IN  Cat(<<IF h > 0 THEN Digits(h) \o <<104>> ELSE <<>>,
              IF h > 0 \/ m > 0 THEN Digits(m) \o <<109>> ELSE <<>>,
              Digits(s) \o <<115>>>>)

\* r.maxWaitTime formatted with %s
maxWaitTimeText ==
    DurationString(DefaultMaxWaitTimeSeconds)

\* variant of ResultCondition: a record that is not a success is published
\* with status Unknown
ResultCondition_Unknown(r) ==
    JobCondition(conditionType,
                 IF IsSuccess(r) THEN ConditionStatusTrue ELSE ConditionStatusUnknown,
                 r.reason, r.message)

\* the condition built by UpdateFromResult
ResultCondition(r) ==
    JobCondition(conditionType,
                 IF IsSuccess(r) THEN ConditionStatusTrue ELSE ConditionStatusFalse,
                 r.reason, r.message)

\* variant of ErrorCondition: the parse error is left out of the message
ErrorCondition_NoDiagnostic(err) ==
    JobCondition(conditionType, ConditionStatusFalse, ReasonInvalidResultFormat,
                 FmtFailedToParse)

\* the condition built by UpdateFromError
ErrorCondition(err) ==
    JobCondition(conditionType, ConditionStatusFalse, ReasonInvalidResultFormat,
                 Cat(<<FmtFailedToParse, err.msg>>))

\* the condition built by UpdateFromTimeout when the container is not
\* known to be terminated
TimeoutCondition ==
    JobCondition(conditionType, ConditionStatusFalse, ReasonAdapterTimeout,
                 Cat(<<FmtNoResultsWithin, maxWaitTimeText>>))

\* variant of TerminationReason: the exit code is tested before the reason
TerminationReason_ExitCodeFirst(t) ==
    IF t.exitCode # 0 THEN ReasonAdapterExitedWithError
    ELSE IF t.reason = ContainerReasonOOMKilled THEN ReasonAdapterOOMKilled
    ELSE ReasonAdapterMissingResults

\* reason and message chosen by UpdateFromTerminatedContainer
TerminationReason(t) ==
    IF t.reason = ContainerReasonOOMKilled THEN ReasonAdapterOOMKilled
    ELSE IF t.exitCode # 0 THEN ReasonAdapterExitedWithError
    ELSE ReasonAdapterMissingResults

TerminationMessage(t) ==
    IF t.reason = ContainerReasonOOMKilled THEN TextOOMKilled
    ELSE IF t.exitCode # 0
    THEN Cat(<<FmtExitedWithCode, Itoa(t.exitCode), FmtColon, t.reason>>)
    ELSE Cat(<<FmtExitedZero, t.reason>>)

TerminatedCondition(t) ==
    JobCondition(conditionType, ConditionStatusFalse, TerminationReason(t),
                 TerminationMessage(t))

\* the error a failed UpdateJobStatus returns
PublishError ==
    NewError("publish", TextPublishFailed)

\* errors returned by the Update* functions
ResultUpdateError(updateErr) ==
    Wrap("reporter.UpdateFromResult", 
         Cat(<<FmtUpdateFailedPod, podName, FmtCondition, conditionType, FmtColon>>),
         updateErr)

UpdateError(id, updateErr) ==
    Wrap(id, FmtUpdateFailed, updateErr)

TimeoutError ==
    NewError("reporter.timeout", TextTimeoutWaiting)

TerminatedError(t) ==
    NewError("reporter.terminated", Cat(<<FmtTerminated, TerminationMessage(t)>>))

(***************************************************************************)
(* StatusReporter.Run: the coordinator, the artifact watcher               *)
(* (pollForResultFile), the container watcher (monitorContainerStatus) and *)
(* their environment                                                       *)
(***************************************************************************)
\* number of times the environment changes the artifact path during a run
MaxWrites ==
    1

VARIABLES
    fs,             \* state of the artifact path
    writes,         \* changes of the artifact path so far
    container,      \* state of the adapter container
    deadline,       \* the deadline of timeoutCtx has passed
    cancelled,      \* the caller's ctx has been cancelled
    chResult,       \* channels.result (capacity 1)
    chError,        \* channels.error (capacity 1)
    chTerminated,   \* channels.terminated (capacity 1)
    done,           \* channels.done has been closed
    runPC,          \* position of Run
    runSig,         \* the signal Run is handling: result, error, terminated
    tryParse,       \* outcome of tryParseResultFile in HandleTermination
    reportErr,      \* reportErr of Run, returned when runPC = "returned"
    pollPC,         \* position of pollForResultFile
    pollOut,        \* the error or result pollForResultFile is about to send
    monPC,          \* position of monitorContainerStatus
    monTerm,        \* the termination info checkContainerStatus is about to send
    resolution,     \* the resolution paths Run has taken, in order
    selectedAt,     \* the select of Run whose case chose the resolution
    published,      \* the calls of UpdateJobStatus, in order
    timeoutQueries  \* the container-state queries made by UpdateFromTimeout

envVars == <<fs, writes, container, deadline, cancelled>>
chanVars == <<chResult, chError, chTerminated>>
runVars == <<runPC, runSig, tryParse, reportErr, resolution, selectedAt, published,
            timeoutQueries>>
pollVars == <<pollPC, pollOut>>
monVars == <<monPC, monTerm>>
reporterVars == <<envVars, chanVars, done, runVars, pollVars, monVars>>

\* The state of the Job in the API server and of a call of the client's
\* UpdateJobStatus.
VARIABLES
    jobExists,      \* the Job is there (a Get of a deleted Job is NotFound)
    jobConditions,  \* job.Status.Conditions as the API server holds it
    jobVersion,     \* the Job's resourceVersion: every write changes it
    otherWrites,    \* the writes other clients have made
    now,            \* what time.Now() returns
    ujPC,           \* the position of UpdateJobStatus
    ujCondition,    \* the condition argument of the call
    ujJob,          \* the job object the call holds: conditions, version
    ujSteps,        \* the steps left of the backoff of RetryOnConflict
    ujErr,          \* the error the call returned
    ujCalls,        \* the calls of UpdateJobStatus made so far
    ujGets,         \* the Get requests of the current call
    ujUpdates       \* the UpdateStatus requests of the current call

jobVars == <<jobExists, jobConditions, jobVersion, otherWrites, now>>
ujVars == <<ujPC, ujCondition, ujJob, ujSteps, ujErr, ujCalls, ujGets, ujUpdates>>
clientVars == <<jobVars, ujVars>>

\* The state of a call of the record functions: Validate and truncateUTF8.
VARIABLES
    recPC,          \* what has been applied to the record
    recIn,          \* the record as given: status, reason, message
    recOut,         \* Validate's error and the record it leaves
    recCut,         \* truncateUTF8 of the given reason and message
    recAgain        \* the error and the record of a second Validate

recVars == <<recPC, recIn, recOut, recCut, recAgain>>

\* the variables of neither the engine nor the k8s client
VARIABLES cfgPC, cfgEnv, cfg, cfgErr, pollInterval, maxWaitTime
cfgVars == <<cfgPC, cfgEnv, cfg, cfgErr, pollInterval, maxWaitTime>>
VARIABLES mainPC, sigChan, doneChan, repPC, ctxCancelled, elapsed, exitCode, taken
mainVars == <<mainPC, sigChan, doneChan, repPC, ctxCancelled, elapsed, exitCode, taken>>

\* The state of a call of the client's GetAdapterContainerStatus.
VARIABLES
    podPC,                  \* the position of GetAdapterContainerStatus
    pod,                    \* pod.Status.ContainerStatuses as the API server holds it
    adapterContainerName,   \* the containerName argument of the call
    podGot,                 \* what the Get request of GetPodStatus returned
    gacOut                  \* the status and the error the call returned

podVars == <<podPC, pod, adapterContainerName, podGot, gacOut>>
otherVars == <<recVars, cfgVars, mainVars, podVars>>

vars == <<reporterVars, clientVars, otherVars>>

NoSignal ==
    [res |-> NoResult, err |-> Nil, term |-> Running]

NoOutcome ==
    [err |-> Nil, res |-> NoResult]

\* the two selects of Run: the blocking one and, after <-timeoutCtx.Done(),
\* the one with a default case
Selects ==
    {"select", "inner"}

\* A timeout context derived from a fresh background context: only its own
\* deadline ends it.
TimeoutCtxDone_DeadlineOnly ==
    deadline

\* timeoutCtx is done: the deadline has passed or the parent was cancelled
TimeoutCtxDone ==
    deadline \/ cancelled

\* variant of RunCtxDone: the update functions are given timeoutCtx
RunCtxDone_TimeoutCtx ==
    TimeoutCtxDone

\* the ctx that Run hands to the update functions, and these to
\* UpdateJobStatus and GetAdapterContainerStatus, is done: it is the
\* caller's ctx, which only the caller cancels
RunCtxDone ==
    cancelled

RunInit ==
    /\ fs \in FileStates
    /\ writes = 0
    /\ container \in {Running} \cup TermInfos
    /\ deadline = FALSE
    /\ cancelled = FALSE
    /\ chResult = <<>>
    /\ chError = <<>>
    /\ chTerminated = <<>>
    /\ done = FALSE
    /\ runPC = "select"
    /\ runSig = NoSignal
    /\ tryParse = NoOutcome
    /\ reportErr = Nil
    /\ pollPC = "select"
    /\ pollOut = NoOutcome
    /\ monPC = "check"
    /\ monTerm = Running
    /\ resolution = <<>>
    /\ selectedAt = "none"
    /\ published = <<>>
    /\ timeoutQueries = <<>>

\* k8s.JobCondition as UpdateJobStatus receives it and batchv1.JobCondition as
\* the Job holds it: time is LastTransitionTime
ClientCondition(type, status, reason, message, time) ==
    [type |-> type, status |-> status, reason |-> reason, message |-> message,
     time |-> time]

\* the zero time.Time: the reporter never sets LastTransitionTime
ZeroTime ==
    0

\* a condition of the reporter as the argument of UpdateJobStatus
FromReporter(c) ==
    ClientCondition(c.type, c.status, c.reason, c.message, ZeroTime)

NoCondition ==
    ClientCondition(<<>>, <<>>, <<>>, <<>>, ZeroTime)

NoJob ==
    [conditions |-> <<>>, version |-> 0]

\* No call of UpdateJobStatus is being made and the Job has no conditions.
ClientIdle ==
    /\ jobExists = TRUE
    /\ jobConditions = <<>>
    /\ jobVersion = 1
    /\ otherWrites = 0
    /\ now = 2
    /\ ujPC = "idle"
    /\ ujCondition = NoCondition
    /\ ujJob = NoJob
    /\ ujSteps = 0
    /\ ujErr = Nil
    /\ ujCalls = 0
    /\ ujGets = 0
    /\ ujUpdates = 0

\* No record function has been called.
RecIdle ==
    /\ recPC = "idle"
    /\ recIn = NoResult
    /\ recOut = NoOutcome
    /\ recCut = NoResult
    /\ recAgain = NoOutcome

\* the int 0
IntZero ==
    [neg |-> FALSE, mag |-> <<0, 0, 0, 0>>]

\* the duration 0
DurationZero ==
    <<0, 0, 0, 0>>

\* the Config before Load has filled it
NoConfig ==
    [JobName |-> <<>>, JobNamespace |-> <<>>, PodName |-> <<>>,
     ResultsPath |-> <<>>, PollIntervalSeconds |-> IntZero,
     MaxWaitTimeSeconds |-> IntZero]

\* the environment of a process that has not been started
NoEnvironment ==
    [jobName |-> <<>>, jobNamespace |-> <<>>, podName |-> <<>>,
     resultsPath |-> <<>>, poll |-> <<>>, maxWait |-> <<>>]

\* No configuration has been loaded or validated.
CfgIdle ==
    /\ cfgPC = "idle"
    /\ cfgEnv = NoEnvironment
    /\ cfg = NoConfig
    /\ cfgErr = Nil
    /\ pollInterval = DurationZero
    /\ maxWaitTime = DurationZero

\* what waitForCompletion has taken from its channels: nothing yet
NoneTaken ==
    [path |-> "none", err |-> Nil, sig |-> "none"]

\* main has not reached waitForCompletion.
MainIdle ==
    /\ mainPC = "idle"
    /\ sigChan = <<>>
    /\ doneChan = <<>>
    /\ repPC = "running"
    /\ ctxCancelled = FALSE
    /\ elapsed = 0
    /\ exitCode = 0 - 1
    /\ taken = NoneTaken

\* no call of GetAdapterContainerStatus is under way
PodIdle ==
    /\ podPC = "idle"
    /\ pod = <<>>
    /\ adapterContainerName = <<>>
    /\ podGot = [pod |-> <<>>, err |-> Nil]
    /\ gacOut = [err |-> Nil]

OtherIdle ==
    RecIdle /\ CfgIdle /\ MainIdle /\ PodIdle

Init ==
    RunInit /\ ClientIdle /\ OtherIdle

(***************************************************************************)
(* Environment                                                             *)
(***************************************************************************)
\* the adapter (or anything else sharing the volume) creates, rewrites or
\* removes the artifact
FileChange ==
    /\ runPC # "returned"
    /\ writes < MaxWrites
    /\ \E f \in FileStates \ {fs} : fs' = f
    /\ writes' = writes + 1
    /\ UNCHANGED <<container, deadline, cancelled, chanVars, done, runVars,
                   pollVars, monVars>>
    /\ UNCHANGED <<clientVars, otherVars>>

ContainerTerminates ==
    /\ runPC # "returned"
    /\ container = Running
    /\ container' \in TermInfos
    /\ UNCHANGED <<fs, writes, deadline, cancelled, chanVars, done, runVars,
                   pollVars, monVars>>
    /\ UNCHANGED <<clientVars, otherVars>>

\* r.maxWaitTime has elapsed since context.WithTimeout
DeadlineExpires ==
    /\ runPC # "returned"
    /\ ~deadline
    /\ deadline' = TRUE
    /\ UNCHANGED <<fs, writes, container, cancelled, chanVars, done, runVars,
                   pollVars, monVars>>
    /\ UNCHANGED <<clientVars, otherVars>>

\* the caller cancels ctx
Cancel ==
    /\ runPC # "returned"
    /\ ~cancelled
    /\ cancelled' = TRUE
    /\ UNCHANGED <<fs, writes, container, deadline, chanVars, done, runVars,
                   pollVars, monVars>>
    /\ UNCHANGED <<clientVars, otherVars>>

\* what GetAdapterContainerStatus can return for container state c: the
\* container's status, or "error" when the pod cannot be read or holds no
\* such container; it never returns a nil status without an error
QueryOutcomes(c) ==
    {[kind |-> "error", reason |-> <<>>, exitCode |-> 0], c}

\* variant of IsTerminated: only a container killed for memory counts
IsTerminated_OOMOnly(q) ==
    q.kind = "terminated" /\ q.reason = ContainerReasonOOMKilled

\* containerStatus != nil && containerStatus.State.Terminated != nil
IsTerminated(q) ==
    q.kind = "terminated"

(***************************************************************************)
(* pollForResultFile                                                       *)
(***************************************************************************)
PollExit ==
    /\ pollPC = "select"
    /\ done \/ TimeoutCtxDone
    /\ pollPC' = "exited"
    /\ UNCHANGED <<envVars, chanVars, done, runVars, pollOut, monVars>>
    /\ UNCHANGED <<clientVars, otherVars>>

\* case <-ticker.C
PollTick ==
    /\ pollPC = "select"
    /\ pollPC' = "stat"
    /\ UNCHANGED <<envVars, chanVars, done, runVars, pollOut, monVars>>
    /\ UNCHANGED <<clientVars, otherVars>>

\* the error pollForResultFile sends for an unexpected stat failure
StatFailure(err) ==
    Wrap("reporter.pollForResultFile/stat",
         Cat(<<FmtStatFailed, resultsPath, FmtColon>>), err)

\* variant of PollStat: every error of os.Stat is reported, not-exist too
PollStat_ReportsNotExist ==
    /\ pollPC = "stat"
    /\ IF Stat(fs) = Nil
       THEN pollPC' = "ParseFile" /\ UNCHANGED pollOut
       ELSE /\ pollPC' = "sendError"
            /\ pollOut' = [err |-> StatFailure(Stat(fs)), res |-> NoResult]
    /\ UNCHANGED <<envVars, chanVars, done, runVars, monVars>>
    /\ UNCHANGED <<clientVars, otherVars>>

\* os.Stat(r.resultsPath) and the branches on its error
PollStat ==
    /\ pollPC = "stat"
    /\ IF Stat(fs) = Nil
       THEN pollPC' = "ParseFile" /\ UNCHANGED pollOut
       ELSE IF IsNotExist(Stat(fs))
       THEN pollPC' = "select" /\ UNCHANGED pollOut
       ELSE /\ pollPC' = "sendError"
            /\ pollOut' = [err |-> StatFailure(Stat(fs)), res |-> NoResult]
    /\ UNCHANGED <<envVars, chanVars, done, runVars, monVars>>
    /\ UNCHANGED <<clientVars, otherVars>>

\* r.parser.ParseFile: its os.Stat and size check
PollParseFileStat ==
    /\ pollPC = "ParseFile"
    /\ IF ParseFileStat(fs) = Nil
       THEN pollPC' = "ReadFile" /\ UNCHANGED pollOut
       ELSE /\ pollPC' = "sendError"
            /\ pollOut' = [err |-> ParseFileStat(fs), res |-> NoResult]
    /\ UNCHANGED <<envVars, chanVars, done, runVars, monVars>>
    /\ UNCHANGED <<clientVars, otherVars>>

\* r.parser.ParseFile: its os.ReadFile and Parse
PollParseFileRead ==
    /\ pollPC = "ReadFile"
    /\ pollOut' = ParseFileReadOf[fs]
    /\ pollPC' = IF ParseFileReadOf[fs].err # Nil THEN "sendError" ELSE "sendResult"
    /\ UNCHANGED <<envVars, chanVars, done, runVars, monVars>>
    /\ UNCHANGED <<clientVars, otherVars>>

\* select { case channels.error <- err: case <-channels.done: return }; return
\* The error hand-off without the return after it: the loop goes on.
PollSendError_KeepsPolling ==
    /\ pollPC = "sendError"
    /\ \/ /\ Len(chError) < 1
          /\ chError' = Append(chError, pollOut.err)
       \/ /\ done
          /\ UNCHANGED chError
    /\ pollPC' = "select"
    /\ UNCHANGED <<envVars, chResult, chTerminated, done, runVars, pollOut, monVars>>
    /\ UNCHANGED <<clientVars, otherVars>>

PollSendError ==
    /\ pollPC = "sendError"
    /\ \/ /\ Len(chError) < 1
          /\ chError' = Append(chError, pollOut.err)
       \/ /\ done
          /\ UNCHANGED chError
    /\ pollPC' = "exited"
    /\ UNCHANGED <<envVars, chResult, chTerminated, done, runVars, pollOut, monVars>>
    /\ UNCHANGED <<clientVars, otherVars>>

\* select { case channels.result <- adapterResult: case <-channels.done: return }; return
PollSendResult ==
    /\ pollPC = "sendResult"
    /\ \/ /\ Len(chResult) < 1
          /\ chResult' = Append(chResult, pollOut.res)
       \/ /\ done
          /\ UNCHANGED chResult
    /\ pollPC' = "exited"
    /\ UNCHANGED <<envVars, chError, chTerminated, done, runVars, pollOut, monVars>>
    /\ UNCHANGED <<clientVars, otherVars>>

(***************************************************************************)
(* monitorContainerStatus / checkContainerStatus                           *)
(***************************************************************************)
\* variant of MonCheck: a failed query ends the watcher
MonCheck_ErrorStops ==
    /\ monPC = "check"
    /\ \E q \in QueryOutcomes(container) :
          IF IsTerminated(q)
          THEN monPC' = "send" /\ monTerm' = q
          ELSE /\ monPC' = IF q.kind = "error" THEN "exited" ELSE "select"
               /\ UNCHANGED monTerm
    /\ UNCHANGED <<envVars, chanVars, done, runVars, pollVars>>
    /\ UNCHANGED <<clientVars, otherVars>>

\* checkContainerStatus up to its select: the query and the test of its result
MonCheck ==
    /\ monPC = "check"
    /\ \E q \in QueryOutcomes(container) :
          IF IsTerminated(q)
          THEN monPC' = "send" /\ monTerm' = q
          ELSE monPC' = "select" /\ UNCHANGED monTerm
    /\ UNCHANGED <<envVars, chanVars, done, runVars, pollVars>>
    /\ UNCHANGED <<clientVars, otherVars>>

\* select { case channels.terminated <- ...: case <-channels.done: }; return true
\* The hand-off as a bare send on an unbuffered channel: it completes only
\* while Run is receiving, and there is no done case to abandon it.
MonSend_Rendezvous ==
    /\ monPC = "send"
    /\ runPC \in Selects
    /\ Len(chTerminated) < 1
    /\ chTerminated' = Append(chTerminated, monTerm)
    /\ monPC' = "exited"
    /\ UNCHANGED <<envVars, chResult, chError, done, runVars, pollVars, monTerm>>
    /\ UNCHANGED <<clientVars, otherVars>>

MonSend ==
    /\ monPC = "send"
    /\ \/ /\ Len(chTerminated) < 1
          /\ chTerminated' = Append(chTerminated, monTerm)
       \/ /\ done
          /\ UNCHANGED chTerminated
    /\ monPC' = "exited"
    /\ UNCHANGED <<envVars, chResult, chError, done, runVars, pollVars, monTerm>>
    /\ UNCHANGED <<clientVars, otherVars>>

\* A loop that only ranges over the ticker: no case leaves it.
MonExit_NoStopCase ==
    /\ monPC = "select"
    /\ FALSE
    /\ monPC' = "exited"
    /\ UNCHANGED <<envVars, chanVars, done, runVars, pollVars, monTerm>>
    /\ UNCHANGED <<clientVars, otherVars>>

MonExit ==
    /\ monPC = "select"
    /\ done \/ TimeoutCtxDone
    /\ monPC' = "exited"
    /\ UNCHANGED <<envVars, chanVars, done, runVars, pollVars, monTerm>>
    /\ UNCHANGED <<clientVars, otherVars>>

\* case <-ticker.C
MonTick ==
    /\ monPC = "select"
    /\ monPC' = "check"
    /\ UNCHANGED <<envVars, chanVars, done, runVars, pollVars, monTerm>>
    /\ UNCHANGED <<clientVars, otherVars>>

(***************************************************************************)
(* Run                                                                     *)
(***************************************************************************)
\* variant of Publish: a failed call is repeated once
Publish_Retry(by, cond, ok) ==
    published' =
        IF ok
        THEN Append(published, [by |-> by, cond |-> cond, ok |-> TRUE,
                                ctxCancelled |-> cancelled])
        ELSE published \o <<[by |-> by, cond |-> cond, ok |-> FALSE,
                             ctxCancelled |-> cancelled],
                            [by |-> by, cond |-> cond, ok |-> FALSE,
                             ctxCancelled |-> cancelled]>>

\* r.k8sClient.UpdateJobStatus(ctx, cond) called by function by; ok is
\* whether the call succeeds.  ctx is the caller's context.
Publish(by, cond, ok) ==
    published' = Append(published, [by |-> by, cond |-> cond, ok |-> ok,
                                    ctxCancelled |-> RunCtxDone])

\* case adapterResult := <-channels.result
RunRecvResult(at) ==
    /\ runPC = at
    /\ chResult # <<>>
    /\ runSig' = [runSig EXCEPT !.res = Head(chResult)]
    /\ chResult' = Tail(chResult)
    /\ resolution' = Append(resolution, "result")
    /\ selectedAt' = at
    /\ runPC' = "UpdateFromResult"
    /\ UNCHANGED <<envVars, chError, chTerminated, done, tryParse, reportErr,
                   published, timeoutQueries, pollVars, monVars>>
    /\ UNCHANGED <<clientVars, otherVars>>

\* case err := <-channels.error
RunRecvError(at) ==
    /\ runPC = at
    /\ chError # <<>>
    /\ runSig' = [runSig EXCEPT !.err = Head(chError)]
    /\ chError' = Tail(chError)
    /\ resolution' = Append(resolution, "error")
    /\ selectedAt' = at
    /\ runPC' = "UpdateFromError"
    /\ UNCHANGED <<envVars, chResult, chTerminated, done, tryParse, reportErr,
                   published, timeoutQueries, pollVars, monVars>>
    /\ UNCHANGED <<clientVars, otherVars>>

\* variant of RunRecvTerminated: the termination is reported from the exit
\* code at once, without HandleTermination's look at the artifact
RunRecvTerminated_ExitCodeOnly(at) ==
    /\ runPC = at
    /\ chTerminated # <<>>
    /\ runSig' = [runSig EXCEPT !.term = Head(chTerminated)]
    /\ chTerminated' = Tail(chTerminated)
    /\ resolution' = Append(resolution, "terminated")
    /\ selectedAt' = at
    /\ runPC' = "UpdateFromTerminatedContainer"
    /\ UNCHANGED <<envVars, chResult, chError, done, tryParse, reportErr,
                   published, timeoutQueries, pollVars, monVars>>
    /\ UNCHANGED <<clientVars, otherVars>>

\* case terminated := <-channels.terminated
RunRecvTerminated(at) ==
    /\ runPC = at
    /\ chTerminated # <<>>
    /\ runSig' = [runSig EXCEPT !.term = Head(chTerminated)]
    /\ chTerminated' = Tail(chTerminated)
    /\ resolution' = Append(resolution, "terminated")
    /\ selectedAt' = at
    /\ runPC' = "HandleTermination"
    /\ UNCHANGED <<envVars, chResult, chError, done, tryParse, reportErr,
                   published, timeoutQueries, pollVars, monVars>>
    /\ UNCHANGED <<clientVars, otherVars>>

\* case <-timeoutCtx.Done() of the blocking select
RunDone ==
    /\ runPC = "select"
    /\ TimeoutCtxDone
    /\ runPC' = "inner"
    /\ UNCHANGED <<envVars, chanVars, done, runSig, tryParse, reportErr,
                   resolution, published, timeoutQueries, pollVars, monVars>>
    /\ UNCHANGED selectedAt
    /\ UNCHANGED <<clientVars, otherVars>>

\* default case of the inner select: no channel holds a signal
\* The inner select with its default case chosen whatever the channels hold.
RunDefault_Unguarded ==
    /\ runPC = "inner"
    /\ resolution' = Append(resolution, "timeout")
    /\ selectedAt' = "inner"
    /\ runPC' = "UpdateFromTimeout"
    /\ UNCHANGED <<envVars, chanVars, done, runSig, tryParse, reportErr,
                   published, timeoutQueries, pollVars, monVars>>
    /\ UNCHANGED <<clientVars, otherVars>>

RunDefault ==
    /\ runPC = "inner"
    /\ chResult = <<>> /\ chError = <<>> /\ chTerminated = <<>>
    /\ resolution' = Append(resolution, "timeout")
    /\ selectedAt' = "inner"
    /\ runPC' = "UpdateFromTimeout"
    /\ UNCHANGED <<envVars, chanVars, done, runSig, tryParse, reportErr,
                   published, timeoutQueries, pollVars, monVars>>
    /\ UNCHANGED <<clientVars, otherVars>>

\* variant of TerminationBranch: the result file is not consulted
TerminationBranch_ExitCodeOnly(outcome) ==
    "UpdateFromTerminatedContainer"

\* where HandleTermination goes for an outcome of tryParseResultFile:
\* err == nil && adapterResult != nil -> UpdateFromResult, anything else
\* falls through to UpdateFromTerminatedContainer
TerminationBranch(outcome) ==
    IF outcome.err = Nil THEN "UpdateFromResult"
    ELSE "UpdateFromTerminatedContainer"

\* HandleTermination reporting an artifact that exists but cannot be used as
\* a format error, as the error path of Run does.
TryParseReturns_ReportsParseError(outcome) ==
    /\ tryParse' = outcome
    /\ runPC' = IF outcome.err = Nil THEN "UpdateFromResult"
                ELSE IF IsNotExist(outcome.err) THEN "UpdateFromTerminatedContainer"
                ELSE "UpdateFromError"
    /\ runSig' = IF outcome.err = Nil THEN [runSig EXCEPT !.res = outcome.res]
                 ELSE IF IsNotExist(outcome.err) THEN runSig
                 ELSE [runSig EXCEPT !.err = outcome.err]

\* tryParseResultFile has returned outcome to HandleTermination
TryParseReturns(outcome) ==
    /\ tryParse' = outcome
    /\ runPC' = TerminationBranch(outcome)
    /\ runSig' = IF TerminationBranch(outcome) = "UpdateFromResult"
                 THEN [runSig EXCEPT !.res = outcome.res] ELSE runSig

\* tryParseResultFile: os.Stat(r.resultsPath)
TryParseStat ==
    /\ runPC = "HandleTermination"
    /\ IF Stat(fs) # Nil
       THEN TryParseReturns([err |-> Stat(fs), res |-> NoResult])
       ELSE runPC' = "tryParse/ParseFile" /\ UNCHANGED <<tryParse, runSig>>
    /\ UNCHANGED <<envVars, chanVars, done, reportErr, resolution, published,
                   timeoutQueries, pollVars, monVars>>
    /\ UNCHANGED selectedAt
    /\ UNCHANGED <<clientVars, otherVars>>

\* fmt.Errorf("parse failed: %w", err) of tryParseResultFile
ParseFailed(err) ==
    Wrap("reporter.tryParseResultFile", FmtParseFailed, err)

\* tryParseResultFile: ParseFile's os.Stat and size check
TryParseFileStat ==
    /\ runPC = "tryParse/ParseFile"
    /\ IF ParseFileStat(fs) # Nil
       THEN TryParseReturns([err |-> ParseFailed(ParseFileStat(fs)), res |-> NoResult])
       ELSE runPC' = "tryParse/ReadFile" /\ UNCHANGED <<tryParse, runSig>>
    /\ UNCHANGED <<envVars, chanVars, done, reportErr, resolution, published,
                   timeoutQueries, pollVars, monVars>>
    /\ UNCHANGED selectedAt
    /\ UNCHANGED <<clientVars, otherVars>>

\* tryParseResultFile: ParseFile's os.ReadFile and Parse
TryParseFileRead ==
    /\ runPC = "tryParse/ReadFile"
    /\ IF ParseFileReadOf[fs].err # Nil
       THEN TryParseReturns([err |-> ParseFailed(ParseFileReadOf[fs].err), res |-> NoResult])
       ELSE TryParseReturns(ParseFileReadOf[fs])
    /\ UNCHANGED <<envVars, chanVars, done, reportErr, resolution, published,
                   timeoutQueries, pollVars, monVars>>
    /\ UNCHANGED selectedAt
    /\ UNCHANGED <<clientVars, otherVars>>

\* variant of AfterUpdate: the select sits in a loop that is not left
AfterUpdate_Loop ==
    "select"

\* where Run continues once the selected case has set reportErr: the
\* statement after the select, close(channels.done)
AfterUpdate ==
    "close"

\* the value UpdateFromResult returns
ResultReturn(ok) ==
    IF ok THEN Nil ELSE ResultUpdateError(PublishError)

\* variant of ErrorReturn: nil once the condition has been published
ErrorReturn_NilOnPublish(ok, err) ==
    IF ok THEN Nil ELSE UpdateError("reporter.UpdateFromError", PublishError)

\* the value UpdateFromError returns for the parse error err
ErrorReturn(ok, err) ==
    IF ok THEN err ELSE UpdateError("reporter.UpdateFromError", PublishError)

\* the value UpdateFromTimeout returns after publishing AdapterTimeout
TimeoutReturn(ok) ==
    IF ok THEN TimeoutError ELSE UpdateError("reporter.UpdateFromTimeout", PublishError)

\* variant of TerminatedReturn: the result of UpdateJobStatus is dropped
TerminatedReturn_IgnoresPublish(ok, t) ==
    TerminatedError(t)

\* the value UpdateFromTerminatedContainer returns
TerminatedReturn(ok, t) ==
    IF ok THEN TerminatedError(t)
    ELSE UpdateError("reporter.UpdateFromTerminatedContainer", PublishError)

UpdateFromResult ==
    /\ runPC = "UpdateFromResult"
    /\ \E ok \in BOOLEAN :
          /\ Publish("UpdateFromResult", ResultCondition(runSig.res), ok)
          /\ reportErr' = ResultReturn(ok)
    /\ runPC' = AfterUpdate
    /\ UNCHANGED <<envVars, chanVars, done, runSig, tryParse, resolution,
                   timeoutQueries, pollVars, monVars>>
    /\ UNCHANGED selectedAt
    /\ UNCHANGED <<clientVars, otherVars>>

UpdateFromError ==
    /\ runPC = "UpdateFromError"
    /\ \E ok \in BOOLEAN :
          /\ Publish("UpdateFromError", ErrorCondition(runSig.err), ok)
          /\ reportErr' = ErrorReturn(ok, runSig.err)
    /\ runPC' = AfterUpdate
    /\ UNCHANGED <<envVars, chanVars, done, runSig, tryParse, resolution,
                   timeoutQueries, pollVars, monVars>>
    /\ UNCHANGED selectedAt
    /\ UNCHANGED <<clientVars, otherVars>>

UpdateFromTerminatedContainer ==
    /\ runPC = "UpdateFromTerminatedContainer"
    /\ \E ok \in BOOLEAN :
          /\ Publish("UpdateFromTerminatedContainer", TerminatedCondition(runSig.term), ok)
          /\ reportErr' = TerminatedReturn(ok, runSig.term)
    /\ runPC' = AfterUpdate
    /\ UNCHANGED <<envVars, chanVars, done, runSig, tryParse, resolution,
                   timeoutQueries, pollVars, monVars>>
    /\ UNCHANGED selectedAt
    /\ UNCHANGED <<clientVars, otherVars>>

\* where UpdateFromTimeout goes when its query reports a terminated container
TimeoutTerminatedBranch ==
    "UpdateFromTerminatedContainer"

\* UpdateFromTimeout up to the test of its query: the delegation for a
\* terminated container, the warning for a failed query, or neither
UpdateFromTimeout ==
    /\ runPC = "UpdateFromTimeout"
    /\ timeoutQueries' = Append(timeoutQueries, [ctxCancelled |-> RunCtxDone])
    /\ \E q \in QueryOutcomes(container) :
          IF IsTerminated(q)
          THEN /\ runSig' = [runSig EXCEPT !.term = q]
               /\ runPC' = TimeoutTerminatedBranch
          ELSE /\ runPC' = IF q.kind = "error" THEN "UpdateFromTimeout/warning"
                           ELSE "UpdateFromTimeout/condition"
               /\ UNCHANGED runSig
    /\ UNCHANGED <<envVars, chanVars, done, tryParse, reportErr, resolution,
                   published, pollVars, monVars>>
    /\ UNCHANGED selectedAt
    /\ UNCHANGED <<clientVars, otherVars>>

\* the positions of UpdateFromTimeout after a query that did not report a
\* termination
TimeoutPublishing ==
    {"UpdateFromTimeout/warning", "UpdateFromTimeout/condition"}

\* UpdateFromTimeout from its condition literal on: the AdapterTimeout
\* condition is published and the timeout error returned
UpdateFromTimeoutCondition ==
    /\ runPC \in TimeoutPublishing
    /\ \E ok \in BOOLEAN :
          /\ Publish("UpdateFromTimeout", TimeoutCondition, ok)
          /\ reportErr' = TimeoutReturn(ok)
    /\ runPC' = AfterUpdate
    /\ UNCHANGED <<envVars, chanVars, done, runSig, tryParse, resolution,
                   timeoutQueries, pollVars, monVars>>
    /\ UNCHANGED selectedAt
    /\ UNCHANGED <<clientVars, otherVars>>

\* close(channels.done)
RunClose ==
    /\ runPC = "close"
    /\ done' = TRUE
    /\ runPC' = "wait"
    /\ UNCHANGED <<envVars, chanVars, runSig, tryParse, reportErr, resolution,
                   published, timeoutQueries, pollVars, monVars>>
    /\ UNCHANGED selectedAt
    /\ UNCHANGED <<clientVars, otherVars>>

\* wg.Wait() returns once both watchers have called wg.Done; return reportErr
\* Run returning right after close(done), without wg.Wait().
RunReturn_NoWait ==
    /\ runPC = "wait"
    /\ runPC' = "returned"
    /\ UNCHANGED <<envVars, chanVars, done, runSig, tryParse, reportErr,
                   resolution, published, timeoutQueries, pollVars, monVars>>
    /\ UNCHANGED selectedAt
    /\ UNCHANGED <<clientVars, otherVars>>

RunReturn ==
    /\ runPC = "wait"
    /\ pollPC = "exited" /\ monPC = "exited"
    /\ runPC' = "returned"
    /\ UNCHANGED <<envVars, chanVars, done, runSig, tryParse, reportErr,
                   resolution, published, timeoutQueries, pollVars, monVars>>
    /\ UNCHANGED selectedAt
    /\ UNCHANGED <<clientVars, otherVars>>

Next ==
    \/ FileChange
    \/ ContainerTerminates
    \/ DeadlineExpires
    \/ Cancel
    \/ PollExit
    \/ PollTick
    \/ PollStat
    \/ PollParseFileStat
    \/ PollParseFileRead
    \/ PollSendError
    \/ PollSendResult
    \/ MonCheck
    \/ MonSend
    \/ MonExit
    \/ MonTick
    \/ \E at \in Selects : RunRecvResult(at)
    \/ \E at \in Selects : RunRecvError(at)
    \/ \E at \in Selects : RunRecvTerminated(at)
    \/ RunDone
    \/ RunDefault
    \/ TryParseStat
    \/ TryParseFileStat
    \/ TryParseFileRead
    \/ UpdateFromResult
    \/ UpdateFromError
    \/ UpdateFromTerminatedContainer
    \/ UpdateFromTimeout
    \/ UpdateFromTimeoutCondition
    \/ RunClose
    \/ RunReturn

Spec ==
    Init /\ [][Next]_vars

TypeOK ==
    /\ fs \in FileStates
    /\ writes \in 0..MaxWrites
    /\ container \in {Running} \cup TermInfos
    /\ Len(chResult) <= 1 /\ Len(chError) <= 1 /\ Len(chTerminated) <= 1
    /\ selectedAt \in {"none"} \cup Selects

(***************************************************************************)
(* The k8s client: UpdateJobStatus and the Job it writes to                *)
(***************************************************************************)
\* Steps of retry.DefaultBackoff: RetryOnConflict makes at most this many
\* attempts.
DefaultBackoffSteps ==
    4

\* How many calls of UpdateJobStatus, writes of other clients and clock
\* readings a run of the client has.
MaxCalls ==
    2

MaxOtherWrites ==
    4

MaxTime ==
    3

\* strconv.Quote of a printable text, as %q formats it
Quote(s) ==
    <<34>> \o Cat([i \in 1..Len(s) |->
                     IF s[i] \in {34, 92} THEN <<92, s[i]>> ELSE <<s[i]>>])
        \o <<34>>

ValidConditionStatuses ==
    {ConditionStatusTrue, ConditionStatusFalse, ConditionStatusUnknown}

InvalidStatusError(status) ==
    NewError("k8s.UpdateJobStatus/status",
             Cat(<<FmtInvalidConditionStatus, Quote(status), FmtExpectedStatus>>))

\* the errors of the API server
NotFound ==
    NewError("k8s.NotFound", TextNotFound)

Conflict ==
    NewError("k8s.Conflict", TextConflict)

ServerError ==
    NewError("k8s.InternalError", TextServerError)

JobNotFoundError(err) ==
    Wrap("k8s.UpdateJobStatus/get",
         Cat(<<FmtJob, jobNamespace, FmtSlash, jobName, FmtNotFound>>), err)

\* what Jobs(namespace).Get can return: Nil stands for the job
GetOutcomes ==
    IF jobExists THEN {Nil, ServerError} ELSE {NotFound, ServerError}

\* what Jobs(namespace).UpdateStatus can return for a job object read at
\* the given resourceVersion
UpdateStatusOutcomes(version) ==
    IF ~jobExists THEN {NotFound, ServerError}
    ELSE IF version # jobVersion THEN {Conflict, ServerError}
    ELSE {Nil, ServerError}

\* newCondition: the argument with its transition time, time.Now() for the
\* zero time
NewCondition(c, t) ==
    ClientCondition(c.type, c.status, c.reason, c.message,
                    IF c.time = ZeroTime THEN t ELSE c.time)

\* A comparison of the whole condition, transition time included.
SameCondition_ComparesTime(existing, new) ==
    existing = new

\* the no-op test of the loop: semantically identical conditions
SameCondition(existing, new) ==
    /\ existing.status = new.status
    /\ existing.reason = new.reason
    /\ existing.message = new.message

\* the index of the first condition of the type, 0 when there is none
FirstOfType(conditions, type) ==
    IF \E i \in DOMAIN conditions : conditions[i].type = type
    THEN CHOOSE i \in DOMAIN conditions :
            /\ conditions[i].type = type
            /\ \A j \in 1..(i - 1) : conditions[j].type # type
    ELSE 0

\* the loop returns nil: the first condition of the type is identical
IsNoOp(conditions, new) ==
    /\ FirstOfType(conditions, new.type) # 0
    /\ SameCondition(conditions[FirstOfType(conditions, new.type)], new)

\* A merge that appends whether or not the type is already there.
SetCondition_AlwaysAppends(conditions, new) ==
    Append(conditions, new)

\* the condition list after the loop and the append
SetCondition(conditions, new) ==
    IF FirstOfType(conditions, new.type) # 0
    THEN [conditions EXCEPT ![FirstOfType(conditions, new.type)] = new]
    ELSE Append(conditions, new)

\* the conditions the reporter publishes
ReporterConditions ==
    {TimeoutCondition,
     ResultCondition(ParseFileReadOf[ArtifactSuccess].res),
     ResultCondition(ParseFileReadOf[ArtifactFailure].res)}

\* the arguments of the calls: the reporter's conditions, one with an
\* explicit transition time, one with status Unknown and one with a status
\* that is no condition status
CallConditions ==
    {FromReporter(c) : c \in ReporterConditions}
        \cup {[FromReporter(TimeoutCondition) EXCEPT !.time = 1],
              [FromReporter(TimeoutCondition) EXCEPT !.status = ConditionStatusUnknown],
              [FromReporter(TimeoutCondition) EXCEPT !.status = TextInvalid]}

\* conditions of the Job that are not the reporter's
JobComplete ==
    ClientCondition(JobTypeComplete, ConditionStatusTrue, <<>>, <<>>, 1)

JobFailed(t) ==
    ClientCondition(JobTypeFailed, ConditionStatusTrue, <<>>, <<>>, t)

\* the condition an earlier run of the reporter left
StoredTimeout ==
    NewCondition(FromReporter(TimeoutCondition), 1)

InitialConditionLists ==
    {<<>>, <<JobComplete>>, <<StoredTimeout>>, <<JobComplete, StoredTimeout>>,
     <<StoredTimeout, JobComplete>>}

\* The reporter has not started: no artifact, the adapter running.
ReporterNotStarted ==
    /\ RunInit
    /\ fs = Absent
    /\ container = Running

ClientInit ==
    /\ ReporterNotStarted
    /\ jobExists = TRUE
    /\ jobConditions \in InitialConditionLists
    /\ jobVersion = 1
    /\ otherWrites = 0
    /\ now = 2
    /\ ujPC = "idle"
    /\ ujCondition = NoCondition
    /\ ujJob = NoJob
    /\ ujSteps = 0
    /\ ujErr = Nil
    /\ ujCalls = 0
    /\ ujGets = 0
    /\ ujUpdates = 0
    /\ OtherIdle

\* another client writes the Job's status: it sets the Failed condition
OtherWrite ==
    /\ jobExists
    /\ otherWrites < MaxOtherWrites
    /\ jobConditions' =
          IF \E i \in DOMAIN jobConditions : jobConditions[i].type = JobTypeFailed
          THEN [i \in DOMAIN jobConditions |->
                  IF jobConditions[i].type = JobTypeFailed
                  THEN JobFailed(now) ELSE jobConditions[i]]
          ELSE Append(jobConditions, JobFailed(now))
    /\ jobVersion' = jobVersion + 1
    /\ otherWrites' = otherWrites + 1
    /\ UNCHANGED <<jobExists, now, ujVars, reporterVars, otherVars>>

\* the Job is deleted
DeleteJob ==
    /\ jobExists
    /\ jobExists' = FALSE
    /\ UNCHANGED <<jobConditions, jobVersion, otherWrites, now, ujVars, reporterVars, otherVars>>

\* time passes
ClockTick ==
    /\ now < MaxTime
    /\ now' = now + 1
    /\ UNCHANGED <<jobExists, jobConditions, jobVersion, otherWrites, ujVars,
                   reporterVars, otherVars>>

\* UpdateJobStatus is called: RetryOnConflict starts with the default backoff
UJCall ==
    /\ ujPC \in {"idle", "returned"}
    /\ ujCalls < MaxCalls
    /\ \E c \in CallConditions : ujCondition' = c
    /\ ujPC' = "validate"
    /\ ujJob' = NoJob
    /\ ujSteps' = DefaultBackoffSteps
    /\ ujErr' = Nil
    /\ ujCalls' = ujCalls + 1
    /\ ujGets' = 0
    /\ ujUpdates' = 0
    /\ UNCHANGED <<jobVars, reporterVars, otherVars>>

\* variant of AttemptReturns: the attempt is repeated for every error
AttemptReturns_AnyError(err) ==
    IF err # Nil /\ ujSteps > 1
    THEN /\ ujPC' = "validate"
         /\ ujSteps' = ujSteps - 1
         /\ UNCHANGED ujErr
    ELSE /\ ujPC' = "returned"
         /\ ujErr' = err
         /\ UNCHANGED ujSteps

\* An attempt returned err: RetryOnConflict sleeps and repeats the attempt
\* for a conflict while steps are left, and returns anything else.
AttemptReturns(err) ==
    IF err # Nil /\ ErrorsIs(err, "k8s.Conflict") /\ ujSteps > 1
    THEN /\ ujPC' = "validate"
         /\ ujSteps' = ujSteps - 1
         /\ UNCHANGED ujErr
    ELSE /\ ujPC' = "returned"
         /\ ujErr' = err
         /\ UNCHANGED ujSteps

\* An attempt that goes to the Get without looking at the status.
UJValidate_NoCheck ==
    /\ ujPC = "validate"
    /\ ujPC' = "get"
    /\ UNCHANGED <<ujSteps, ujErr>>
    /\ UNCHANGED <<jobVars, ujCondition, ujJob, ujCalls, ujGets, ujUpdates,
                   reporterVars, otherVars>>

\* the switch on condition.Status
UJValidate ==
    /\ ujPC = "validate"
    /\ IF ujCondition.status \in ValidConditionStatuses
       THEN ujPC' = "get" /\ UNCHANGED <<ujSteps, ujErr>>
       ELSE AttemptReturns(InvalidStatusError(ujCondition.status))
    /\ UNCHANGED <<jobVars, ujCondition, ujJob, ujCalls, ujGets, ujUpdates,
                   reporterVars, otherVars>>

\* Jobs(namespace).Get
UJGet ==
    /\ ujPC = "get"
    /\ ujGets' = ujGets + 1
    /\ \E e \in GetOutcomes :
          IF e = Nil
          THEN /\ ujJob' = [conditions |-> jobConditions, version |-> jobVersion]
               /\ ujPC' = "merge"
               /\ UNCHANGED <<ujSteps, ujErr>>
          ELSE /\ AttemptReturns(IF ErrorsIs(e, "k8s.NotFound")
                                 THEN JobNotFoundError(e) ELSE e)
               /\ UNCHANGED ujJob
    /\ UNCHANGED <<jobVars, ujCondition, ujCalls, ujUpdates, reporterVars, otherVars>>

\* the transition time, the new condition and the loop over the job's
\* conditions: nil for an identical condition, else the list is changed
UJMerge ==
    /\ ujPC = "merge"
    /\ IF IsNoOp(ujJob.conditions, NewCondition(ujCondition, now))
       THEN /\ AttemptReturns(Nil)
            /\ UNCHANGED ujJob
       ELSE /\ ujJob' = [ujJob EXCEPT !.conditions =
                            SetCondition(ujJob.conditions,
                                         NewCondition(ujCondition, now))]
            /\ ujPC' = "update"
            /\ UNCHANGED <<ujSteps, ujErr>>
    /\ UNCHANGED <<jobVars, ujCondition, ujCalls, ujGets, ujUpdates, reporterVars, otherVars>>

\* Jobs(namespace).UpdateStatus: the server takes the write only for the
\* resourceVersion it holds
UJUpdateStatus ==
    /\ ujPC = "update"
    /\ ujUpdates' = ujUpdates + 1
    /\ \E e \in UpdateStatusOutcomes(ujJob.version) :
          /\ AttemptReturns(e)
          /\ IF e = Nil
             THEN /\ jobConditions' = ujJob.conditions
                  /\ jobVersion' = jobVersion + 1
             ELSE UNCHANGED <<jobConditions, jobVersion>>
    /\ UNCHANGED <<jobExists, otherWrites, now, ujCondition, ujJob, ujCalls,
                   ujGets, reporterVars, otherVars>>

ClientNext ==
    \/ OtherWrite
    \/ DeleteJob
    \/ ClockTick
    \/ UJCall
    \/ UJValidate
    \/ UJGet
    \/ UJMerge
    \/ UJUpdateStatus

ClientSpec ==
    ClientInit /\ [][ClientNext]_vars

(***************************************************************************)
(* The record functions: AdapterResult.Validate and truncateUTF8           *)
(***************************************************************************)
\* strings.Repeat("A", n)
Repeat(n) ==
    [i \in 1..n |-> 65]

\* The texts a reason or message is drawn from, for the limit of the field:
\* empty, white space only, plain, with ASCII and Unicode white space around
\* it, and longer than the limit, where the byte after the limit is a
\* single-byte character, the second byte of U+00E9, the third of U+20AC,
\* the fourth of U+1F600, or the first of U+00E9; a long text with a space
\* just before the limit and one with white space before it; and two texts
\* that are no UTF-8: continuation bytes only, and a lead byte followed by
\* single-byte characters at the limit.
FieldTexts(maxBytes) ==
    {<<>>, <<32,32,32>>, <<9,10,32>>, TextTest,
     <<32,32>> \o TextTest \o <<32,10>>,
     <<194,160>> \o TextTest \o <<226,128,131>>,
     Repeat(maxBytes), Repeat(maxBytes + 1),
     Repeat(maxBytes - 1) \o <<195,169>> \o <<65>>,
     Repeat(maxBytes - 2) \o <<226,130,172>> \o <<65>>,
     Repeat(maxBytes - 3) \o <<240,159,152,128>> \o <<65>>,
     Repeat(maxBytes) \o <<195,169>>,
     Repeat(maxBytes - 1) \o <<32>> \o Repeat(3),
     <<32,32>> \o Repeat(maxBytes + 1),
     [i \in 1..(maxBytes + 1) |-> 128],
     Repeat(maxBytes - 1) \o <<195>> \o <<65,65>>}

\* the statuses: the two tokens, "Success", "invalid" and the empty text
RecordStatuses ==
    {StatusSuccess, StatusFailure, <<83>> \o Tail(StatusSuccess), TextInvalid, <<>>}

Records ==
    [status : RecordStatuses,
     reason : FieldTexts(maxReasonLength),
     message : FieldTexts(maxMessageLength)]

RecordInit ==
    /\ ReporterNotStarted
    /\ ClientIdle
    /\ CfgIdle
    /\ MainIdle
    /\ PodIdle
    /\ recPC = "given"
    /\ recIn \in Records
    /\ recOut = NoOutcome
    /\ recCut = NoResult
    /\ recAgain = NoOutcome

\* r.Validate()
ValidateCall ==
    /\ recPC = "given"
    /\ recOut' = Validate(recIn)
    /\ recPC' = "validated"
    /\ UNCHANGED <<recIn, recCut, recAgain>>
    /\ UNCHANGED <<reporterVars, clientVars, cfgVars, mainVars, podVars>>

\* truncateUTF8 of the reason and of the message, each with its limit
TruncateCall ==
    /\ recPC = "given"
    /\ recCut' = [status |-> recIn.status,
                  reason |-> truncateUTF8(recIn.reason, maxReasonLength),
                  message |-> truncateUTF8(recIn.message, maxMessageLength)]
    /\ recPC' = "truncated"
    /\ UNCHANGED <<recIn, recOut, recAgain>>
    /\ UNCHANGED <<reporterVars, clientVars, cfgVars, mainVars, podVars>>

\* r.Validate() once more, on the record a first Validate has accepted
RevalidateCall ==
    /\ recPC = "validated"
    /\ recOut.err = Nil
    /\ recAgain' = Validate(recOut.res)
    /\ recPC' = "revalidated"
    /\ UNCHANGED <<recIn, recOut, recCut>>
    /\ UNCHANGED <<reporterVars, clientVars, cfgVars, mainVars, podVars>>

RecordNext ==
    \/ ValidateCall
    \/ TruncateCall
    \/ RevalidateCall

RecordSpec ==
    RecordInit /\ [][RecordNext]_vars

(***************************************************************************)
(* Configuration: config.Load, Config.Validate and the durations of a run  *)
(***************************************************************************)
\* "PollIntervalSeconds"
FieldPollIntervalSeconds ==
    <<80,111,108,108,73,110,116,101,114,118,97,108,83,101,99,111,110,100,115>>

\* "MaxWaitTimeSeconds"
FieldMaxWaitTimeSeconds ==
    <<77,97,120,87,97,105,116,84,105,109,101,83,101,99,111,110,100,115>>

\* "ResultsPath"
FieldResultsPath ==
    <<82,101,115,117,108,116,115,80,97,116,104>>

\* "must be positive"
TextMustBePositive ==
    <<109,117,115,116,32,98,101,32,112,111,115,105,116,105,118,101>>

\* "must be less than MaxWaitTimeSeconds"
TextMustBeLess ==
    <<109,117,115,116,32,98,101,32,108,101,115,115,32,116,104,97,110,32,77,97,120,87,97,105,116,84,105,109,101,83,101,99,111,110,100,115>>

\* "path must be a file, not a directory"
TextMustBeFile ==
    <<112,97,116,104,32,109,117,115,116,32,98,101,32,97,32,102,105,108,101,44,32,110,111,116,32,97,32,100,105,114,101,99,116,111,114,121>>

\* "path must be absolute"
TextMustBeAbsolute ==
    <<112,97,116,104,32,109,117,115,116,32,98,101,32,97,98,115,111,108,117,116,101>>

\* "required"
TextRequired ==
    <<114,101,113,117,105,114,101,100>>

\* "must be a valid integer, got: "
FmtMustBeInteger ==
    <<109,117,115,116,32,98,101,32,97,32,118,97,108,105,100,32,105,110,116,101,103,101,114,44,32,103,111,116,58,32>>

\* "JOB_NAME"
EnvJobName ==
    <<74,79,66,95,78,65,77,69>>

\* "JOB_NAMESPACE"
EnvJobNamespace ==
    <<74,79,66,95,78,65,77,69,83,80,65,67,69>>

\* "POD_NAME"
EnvPodName ==
    <<80,79,68,95,78,65,77,69>>

\* "POLL_INTERVAL_SECONDS"
EnvPollIntervalSeconds ==
    <<80,79,76,76,95,73,78,84,69,82,86,65,76,95,83,69,67,79,78,68,83>>

\* "MAX_WAIT_TIME_SECONDS"
EnvMaxWaitTimeSeconds ==
    <<77,65,88,95,87,65,73,84,95,84,73,77,69,95,83,69,67,79,78,68,83>>

\* "2"
TextDefaultPollIntervalSeconds ==
    <<50>>

\* "300"
TextDefaultMaxWaitTimeSeconds ==
    <<51,48,48>>

\* "/results/result.json"
TextTestResultsPath ==
    <<47,114,101,115,117,108,116,115,47,114,101,115,117,108,116,46,106,115,111,110>>

\* "results/result.json"
TextRelativePath ==
    <<114,101,115,117,108,116,115,47,114,101,115,117,108,116,46,106,115,111,110>>

\* "/results/"
TextDirectoryPath ==
    <<47,114,101,115,117,108,116,115,47>>

\* "/results/../result.json"
TextDotDotPath ==
    <<47,114,101,115,117,108,116,115,47,46,46,47,114,101,115,117,108,116,46,106,115,111,110>>

\* "../results/result.json"
TextUpPath ==
    <<46,46,47,114,101,115,117,108,116,115,47,114,101,115,117,108,116,46,106,115,111,110>>

\* "  /results/custom/path.json  "
TextSpacedPath ==
    <<32,32,47,114,101,115,117,108,116,115,47,99,117,115,116,111,109,47,112,97,116,104,46,106,115,111,110,32,32>>

\* "invalid"
TextInvalidInteger ==
    <<105,110,118,97,108,105,100>>

\* "9223372036"
TextMaxSeconds ==
    <<57,50,50,51,51,55,50,48,51,54>>

\* "9223372037"
TextOverflowSeconds ==
    <<57,50,50,51,51,55,50,48,51,55>>

\* "18446744074"
TextWrapSeconds ==
    <<49,56,52,52,54,55,52,52,48,55,52>>

\* "9223372036854775807"
TextMaxInt64 ==
    <<57,50,50,51,51,55,50,48,51,54,56,53,52,55,55,53,56,48,55>>

\* "9223372036854775808"
TextBeyondInt64 ==
    <<57,50,50,51,51,55,50,48,51,54,56,53,52,55,55,53,56,48,56>>

\* An int of the program (64 bits) is a sign and a magnitude of four limbs
\* of 16 bits, least significant first; a time.Duration is the four limbs
\* of its int64 in two's complement.
Base ==
    65536

\* limbs * m + a for small m and a: the four low limbs and the carry out
MulAdd(limbs, m, a) ==
    LET t1 == limbs[1] * m + a
        t2 == limbs[2] * m + (t1 \div Base)
        t3 == limbs[3] * m + (t2 \div Base)
        t4 == limbs[4] * m + (t3 \div Base)
    IN  [limbs |-> <<t1 % Base, t2 % Base, t3 % Base, t4 % Base>>,
         carry |-> t4 \div Base]

\* the decimal digits ds appended to the magnitude acc; ok is FALSE once
\* the value no longer fits 64 bits
RECURSIVE ParseDigits(_, _)
ParseDigits(ds, acc) ==
    IF ds = <<>> \/ ~acc.ok THEN acc
    ELSE LET r == MulAdd(acc.mag, 10, Head(ds) - 48)
         IN  ParseDigits(Tail(ds), [ok |-> r.carry = 0, mag |-> r.limbs])

\* strconv.Atoi(s): an optional sign, then decimal digits only; an error
\* for anything else and for a value outside the int64 range
Atoi(s) ==
    LET signed == s # <<>> /\ s[1] \in {43, 45}
        neg == s # <<>> /\ s[1] = 45
        ds == IF signed THEN Tail(s) ELSE s
        u == ParseDigits(ds, [ok |-> TRUE, mag |-> IntZero.mag])
    IN  IF ds = <<>> \/ \E i \in 1..Len(ds) : ds[i] \notin 48..57
        THEN [ok |-> FALSE, val |-> IntZero]
        ELSE IF ~u.ok \/ (u.mag[4] >= 32768 /\ ~(neg /\ u.mag = <<0, 0, 0, 32768>>))
        THEN [ok |-> FALSE, val |-> IntZero]
        ELSE [ok |-> TRUE, val |-> [neg |-> neg /\ u.mag # IntZero.mag, mag |-> u.mag]]

\* the int written as the decimal text s in the source
IntOf(s) ==
    Atoi(s).val

\* unsigned a < b on limbs
LimbsLess(a, b) ==
    \E i \in 1..4 : a[i] < b[i] /\ \A k \in (i + 1)..4 : a[k] = b[k]

\* a < b on ints
IntLess(a, b) ==
    IF a.neg # b.neg THEN a.neg
    ELSE IF a.neg THEN LimbsLess(b.mag, a.mag)
    ELSE LimbsLess(a.mag, b.mag)

\* the 64 bits of the int n
Int64Bits(n) ==
    IF n.neg THEN MulAdd([i \in 1..4 |-> Base - 1 - n.mag[i]], 1, 1).limbs
    ELSE n.mag

\* time.Duration(seconds) * time.Second: the int64 product with
\* 1,000,000,000 = 1000 * 1000 * 1000, which wraps around at 64 bits
SecondsToDuration(seconds) ==
    MulAdd(MulAdd(MulAdd(Int64Bits(seconds), 1000, 0).limbs, 1000, 0).limbs,
           1000, 0).limbs

\* a < b on durations (int64 in two's complement)
DurationLess(a, b) ==
    IF (a[4] >= 32768) # (b[4] >= 32768) THEN a[4] >= 32768
    ELSE LimbsLess(a, b)

\* the elements of a path between its separators
RECURSIVE SplitPath(_, _)
SplitPath(s, cur) ==
    IF s = <<>> THEN <<cur>>
    ELSE IF Head(s) = 47 THEN <<cur>> \o SplitPath(Tail(s), <<>>)
    ELSE SplitPath(Tail(s), Append(cur, Head(s)))

\* filepath.Clean on the elements: empty elements and "." are dropped, ".."
\* removes the element before it, is dropped at the root and is kept at the
\* start of a relative path
RECURSIVE CleanElements(_, _, _)
CleanElements(elems, out, rooted) ==
    IF elems = <<>> THEN out
    ELSE LET e == Head(elems)
             rest == Tail(elems)
         IN  IF e = <<>> \/ e = <<46>> THEN CleanElements(rest, out, rooted)
             ELSE IF e # <<46,46>> THEN CleanElements(rest, Append(out, e), rooted)
             ELSE IF out # <<>> /\ out[Len(out)] # <<46,46>>
             THEN CleanElements(rest, SubSeq(out, 1, Len(out) - 1), rooted)
             ELSE IF rooted THEN CleanElements(rest, out, rooted)
             ELSE CleanElements(rest, Append(out, e), rooted)

RECURSIVE JoinPath(_)
JoinPath(elems) ==
    IF elems = <<>> THEN <<>>
    ELSE IF Len(elems) = 1 THEN elems[1]
    ELSE elems[1] \o <<47>> \o JoinPath(Tail(elems))

\* filepath.Clean(path) on Unix
Clean(path) ==
    IF path = <<>> THEN <<46>>
    ELSE LET rooted == path[1] = 47
             out == CleanElements(SplitPath(path, <<>>), <<>>, rooted)
         IN  IF rooted THEN <<47>> \o JoinPath(out)
             ELSE IF out = <<>> THEN <<46>>
             ELSE JoinPath(out)

\* filepath.IsAbs(path) on Unix
IsAbs(path) ==
    HasPrefix(path, <<47>>)

\* &ValidationError{Field, Message}
ValidationError(field, message) ==
    NewError("config.ValidationError", Cat(<<field, FmtColon, message>>))

\* Config.validateResultsPath
validateResultsPath(c) ==
    IF HasSuffix(c.ResultsPath, <<47>>)
    THEN ValidationError(FieldResultsPath, TextMustBeFile)
    ELSE IF ~IsAbs(Clean(c.ResultsPath))
    THEN ValidationError(FieldResultsPath, TextMustBeAbsolute)
    ELSE Nil

\* Config.Validate
ConfigValidate(c) ==
    IF ~IntLess(IntZero, c.PollIntervalSeconds)
    THEN ValidationError(FieldPollIntervalSeconds, TextMustBePositive)
    ELSE IF ~IntLess(IntZero, c.MaxWaitTimeSeconds)
    THEN ValidationError(FieldMaxWaitTimeSeconds, TextMustBePositive)
    ELSE IF ~IntLess(c.PollIntervalSeconds, c.MaxWaitTimeSeconds)
    THEN ValidationError(FieldPollIntervalSeconds, TextMustBeLess)
    ELSE validateResultsPath(c)

\* getEnvOrDefault
getEnvOrDefault(value, defaultValue) ==
    IF TrimSpace(value) = <<>> THEN defaultValue ELSE TrimSpace(value)

\* getRequiredEnv: the error
getRequiredEnv(key, value) ==
    IF TrimSpace(value) = <<>> THEN ValidationError(key, TextRequired) ELSE Nil

\* getEnvIntOrDefault: the error and the value
getEnvIntOrDefault(key, value, defaultValue) ==
    IF TrimSpace(value) = <<>> THEN [err |-> Nil, val |-> defaultValue]
    ELSE IF ~Atoi(TrimSpace(value)).ok
    THEN [err |-> ValidationError(key, FmtMustBeInteger \o TrimSpace(value)),
          val |-> IntZero]
    ELSE [err |-> Nil, val |-> Atoi(TrimSpace(value)).val]

\* config.Load on the environment env (an unset variable is the empty
\* text): the error and the configuration
Load(env) ==
    LET poll == getEnvIntOrDefault(EnvPollIntervalSeconds, env.poll,
                                   IntOf(TextDefaultPollIntervalSeconds))
        wait == getEnvIntOrDefault(EnvMaxWaitTimeSeconds, env.maxWait,
                                   IntOf(TextDefaultMaxWaitTimeSeconds))
        config == [JobName |-> TrimSpace(env.jobName),
                   JobNamespace |-> TrimSpace(env.jobNamespace),
                   PodName |-> TrimSpace(env.podName),
                   ResultsPath |-> getEnvOrDefault(env.resultsPath, resultsPath),
                   PollIntervalSeconds |-> poll.val,
                   MaxWaitTimeSeconds |-> wait.val]
        failed(e) == [err |-> e, cfg |-> NoConfig]
    IN  IF getRequiredEnv(EnvJobName, env.jobName) # Nil
        THEN failed(getRequiredEnv(EnvJobName, env.jobName))
        ELSE IF getRequiredEnv(EnvJobNamespace, env.jobNamespace) # Nil
        THEN failed(getRequiredEnv(EnvJobNamespace, env.jobNamespace))
        ELSE IF getRequiredEnv(EnvPodName, env.podName) # Nil
        THEN failed(getRequiredEnv(EnvPodName, env.podName))
        ELSE IF poll.err # Nil THEN failed(poll.err)
        ELSE IF wait.err # Nil THEN failed(wait.err)
        ELSE IF ConfigValidate(config) # Nil THEN failed(ConfigValidate(config))
        ELSE [err |-> Nil, cfg |-> config]

\* the texts the two timing variables of the environment are drawn from
SecondsTexts ==
    {<<>>, <<48>>, <<45,49>>, <<49>>, <<32,53,32>>, TextDefaultPollIntervalSeconds,
     TextDefaultMaxWaitTimeSeconds, TextInvalidInteger, TextMaxSeconds,
     TextOverflowSeconds, TextWrapSeconds, TextMaxInt64, TextBeyondInt64}

\* the texts the results path is drawn from
PathTexts ==
    {<<>>, <<47>>, <<46>>, resultsPath, TextTestResultsPath, TextRelativePath,
     TextDirectoryPath, TextDotDotPath, TextUpPath, TextSpacedPath}

Environments ==
    [jobName : {<<>>, jobName}, jobNamespace : {jobNamespace},
     podName : {<<32,32>>, podName}, resultsPath : PathTexts,
     poll : SecondsTexts, maxWait : SecondsTexts]

\* the Config values Validate is called on directly
Configs ==
    [JobName : {jobName}, JobNamespace : {jobNamespace}, PodName : {podName},
     ResultsPath : PathTexts,
     PollIntervalSeconds : {Atoi(s).val : s \in {t \in SecondsTexts : Atoi(t).ok}},
     MaxWaitTimeSeconds : {Atoi(s).val : s \in {t \in SecondsTexts : Atoi(t).ok}}]

\* either the process starts in some environment, or a Config is given to
\* Validate
ConfigInit ==
    /\ ReporterNotStarted
    /\ ClientIdle
    /\ RecIdle
    /\ MainIdle
    /\ PodIdle
    /\ cfgErr = Nil
    /\ pollInterval = DurationZero
    /\ maxWaitTime = DurationZero
    /\ \/ cfgPC = "main" /\ cfgEnv \in Environments /\ cfg = NoConfig
       \/ cfgPC = "given" /\ cfgEnv = NoEnvironment /\ cfg \in Configs

\* cfg.Validate() on a given Config
ConfigValidateCall ==
    /\ cfgPC = "given"
    /\ cfgErr' = ConfigValidate(cfg)
    /\ cfgPC' = "validated"
    /\ UNCHANGED <<cfgEnv, cfg, pollInterval, maxWaitTime>>
    /\ UNCHANGED <<reporterVars, clientVars, recVars, mainVars, podVars>>

\* main: cfg, err := config.Load(); log.Fatalf on an error
LoadCall ==
    /\ cfgPC = "main"
    /\ cfg' = Load(cfgEnv).cfg
    /\ cfgErr' = Load(cfgEnv).err
    /\ cfgPC' = IF Load(cfgEnv).err # Nil THEN "fatal" ELSE "loaded"
    /\ UNCHANGED <<cfgEnv, pollInterval, maxWaitTime>>
    /\ UNCHANGED <<reporterVars, clientVars, recVars, mainVars, podVars>>

\* main: reporter.NewReporter(cfg.ResultsPath, cfg.GetPollInterval(),
\* cfg.GetMaxWaitTime(), ...), whose durations the run uses
NewReporterCall ==
    /\ cfgPC = "loaded"
    /\ pollInterval' = SecondsToDuration(cfg.PollIntervalSeconds)
    /\ maxWaitTime' = SecondsToDuration(cfg.MaxWaitTimeSeconds)
    /\ cfgPC' = "started"
    /\ UNCHANGED <<cfgEnv, cfg, cfgErr>>
    /\ UNCHANGED <<reporterVars, clientVars, recVars, mainVars, podVars>>

ConfigNext ==
    \/ ConfigValidateCall
    \/ LoadCall
    \/ NewReporterCall

ConfigSpec ==
    ConfigInit /\ [][ConfigNext]_vars

(***************************************************************************)
(* main: waitForCompletion, handleNormalCompletion, handleShutdown         *)
(***************************************************************************)
\* "context canceled"
TextContextCanceled ==
    <<99,111,110,116,101,120,116,32,99,97,110,99,101,108,101,100>>

\* "test error"
TextTestError ==
    <<116,101,115,116,32,101,114,114,111,114>>

\* "reporter panicked: "
FmtReporterPanicked ==
    <<114,101,112,111,114,116,101,114,32,112,97,110,105,99,107,101,100,58,32>>

\* "cleanup failed"
TextCleanupFailed ==
    <<99,108,101,97,110,117,112,32,102,97,105,108,101,100>>

\* shutdownTimeout, in seconds
shutdownTimeout ==
    5

\* context.Canceled
ContextCanceled ==
    NewError("context.Canceled", TextContextCanceled)

\* what the reporter goroutine can send on done: the value of rep.Run, nil
\* or an error (one that is or wraps context.Canceled, the timeout error, a
\* failed publish, any other error), or the error made from a panic
RunResults ==
    {Nil, ContextCanceled,
     Wrap("reporter.Run", FmtParseFailed, ContextCanceled),
     TimeoutError, UpdateError("reporter.UpdateFromTimeout", PublishError),
     NewError("errors.New", TextTestError),
     NewError("main.panic", FmtReporterPanicked \o TextTestError)}

\* the signals main is notified of
Signals ==
    {"SIGTERM", "SIGINT"}

\* handleNormalCompletion(err)
handleNormalCompletion(err) ==
    IF err # Nil THEN 1 ELSE 0

\* variant of the done case of handleShutdown: every error gives 1
ShutdownCode_AnyError(err) ==
    IF err # Nil THEN 1 ELSE 0

\* the done case of handleShutdown: err != nil && !errors.Is(err,
\* context.Canceled) gives 1
ShutdownCode(err) ==
    IF err # Nil /\ ~ErrorsIs(err, "context.Canceled") THEN 1 ELSE 0

MainInit ==
    /\ ReporterNotStarted
    /\ ClientIdle
    /\ RecIdle
    /\ CfgIdle
    /\ PodIdle
    /\ mainPC = "select"
    /\ sigChan = <<>>
    /\ doneChan = <<>>
    /\ repPC = "running"
    /\ ctxCancelled = FALSE
    /\ elapsed = 0
    /\ exitCode = 0 - 1
    /\ taken = NoneTaken

\* the reporter goroutine: done <- rep.Run(ctx), or the error of a
\* recovered panic; done has room for one value
ReporterReturns ==
    /\ mainPC # "exited"
    /\ repPC = "running"
    /\ \E e \in RunResults : doneChan' = Append(doneChan, e)
    /\ repPC' = "returned"
    /\ UNCHANGED <<mainPC, sigChan, ctxCancelled, elapsed, exitCode, taken>>
    /\ UNCHANGED <<reporterVars, clientVars, recVars, cfgVars, podVars>>

\* the runtime delivers SIGTERM or SIGINT to sigChan, which has room for
\* one signal; a signal that finds it full is dropped
SignalArrives ==
    /\ mainPC # "exited"
    /\ Len(sigChan) < 1
    /\ \E sig \in Signals : sigChan' = Append(sigChan, sig)
    /\ UNCHANGED <<mainPC, doneChan, repPC, ctxCancelled, elapsed, exitCode, taken>>
    /\ UNCHANGED <<reporterVars, clientVars, recVars, cfgVars, podVars>>

\* waitForCompletion: case err := <-done, handleNormalCompletion, os.Exit
WaitDone ==
    /\ mainPC = "select"
    /\ doneChan # <<>>
    /\ taken' = [path |-> "normal", err |-> Head(doneChan), sig |-> "none"]
    /\ doneChan' = Tail(doneChan)
    /\ exitCode' = handleNormalCompletion(Head(doneChan))
    /\ mainPC' = "exited"
    /\ UNCHANGED <<sigChan, repPC, ctxCancelled, elapsed>>
    /\ UNCHANGED <<reporterVars, clientVars, recVars, cfgVars, podVars>>

\* waitForCompletion: case sig := <-sigChan; handleShutdown up to its
\* select: cancel() and time.NewTimer(shutdownTimeout)
WaitSignal ==
    /\ mainPC = "select"
    /\ sigChan # <<>>
    /\ taken' = [taken EXCEPT !.sig = Head(sigChan)]
    /\ sigChan' = Tail(sigChan)
    /\ ctxCancelled' = TRUE
    /\ elapsed' = 0
    /\ mainPC' = "shutdown"
    /\ UNCHANGED <<doneChan, repPC, exitCode>>
    /\ UNCHANGED <<reporterVars, clientVars, recVars, cfgVars, podVars>>

\* a second passes while handleShutdown waits
ShutdownTick ==
    /\ mainPC = "shutdown"
    /\ elapsed < shutdownTimeout
    /\ elapsed' = elapsed + 1
    /\ UNCHANGED <<mainPC, sigChan, doneChan, repPC, ctxCancelled, exitCode, taken>>
    /\ UNCHANGED <<reporterVars, clientVars, recVars, cfgVars, podVars>>

\* handleShutdown: case err := <-done
ShutdownDone ==
    /\ mainPC = "shutdown"
    /\ doneChan # <<>>
    /\ taken' = [taken EXCEPT !.path = "shutdown", !.err = Head(doneChan)]
    /\ doneChan' = Tail(doneChan)
    /\ exitCode' = ShutdownCode(Head(doneChan))
    /\ mainPC' = "exited"
    /\ UNCHANGED <<sigChan, repPC, ctxCancelled, elapsed>>
    /\ UNCHANGED <<reporterVars, clientVars, recVars, cfgVars, podVars>>

\* handleShutdown: case <-timer.C
ShutdownTimeout ==
    /\ mainPC = "shutdown"
    /\ elapsed >= shutdownTimeout
    /\ taken' = [taken EXCEPT !.path = "timeout"]
    /\ exitCode' = 1
    /\ mainPC' = "exited"
    /\ UNCHANGED <<sigChan, doneChan, repPC, ctxCancelled, elapsed>>
    /\ UNCHANGED <<reporterVars, clientVars, recVars, cfgVars, podVars>>

MainNext ==
    \/ ReporterReturns
    \/ SignalArrives
    \/ WaitDone
    \/ WaitSignal
    \/ ShutdownTick
    \/ ShutdownDone
    \/ ShutdownTimeout

MainSpec ==
    MainInit /\ [][MainNext]_vars

(***************************************************************************)
(* Client.GetPodStatus / Client.GetAdapterContainerStatus                  *)
(***************************************************************************)
\* "status-reporter"
StatusReporterContainerName ==
    <<115,116,97,116,117,115,45,114,101,112,111,114,116,101,114>>

\* "adapter"
TextAdapterName ==
    <<97,100,97,112,116,101,114>>

\* "sidecar"
TextSidecarName ==
    <<115,105,100,101,99,97,114>>

\* "Adapter"
TextAdapterUpperName ==
    <<65,100,97,112,116,101,114>>

\* "failed to get pod: namespace="
FmtFailedToGetPod ==
    <<102,97,105,108,101,100,32,116,111,32,103,101,116,32,112,111,100,58,32,110,97,109,101,115,112,97,99,101,61>>

\* " pod="
FmtPod ==
    <<32,112,111,100,61>>

\* " container="
FmtContainer ==
    <<32,99,111,110,116,97,105,110,101,114,61>>

\* "container not found: namespace="
FmtContainerNotFound ==
    <<99,111,110,116,97,105,110,101,114,32,110,111,116,32,102,111,117,110,100,58,32,110,97,109,101,115,112,97,99,101,61>>

\* "adapter container not found: namespace="
FmtAdapterContainerNotFound ==
    <<97,100,97,112,116,101,114,32,99,111,110,116,97,105,110,101,114,32,110,111,116,32,102,111,117,110,100,58,32,110,97,109,101,115,112,97,99,101,61>>

\* a corev1.ContainerStatus: the container's name and its state
ContainerStatus(name, state) ==
    [name |-> name, state |-> state]

\* the nil *corev1.ContainerStatus
NoContainerStatus ==
    ContainerStatus(<<>>, [kind |-> "nil", reason |-> <<>>, exitCode |-> 0])

\* the nil *corev1.PodStatus
NoPodStatus ==
    <<>>

\* the bound of the model on the containers of a pod
MaxContainers ==
    3

\* the container names of the pods of the model
ContainerNames ==
    {StatusReporterContainerName, TextAdapterName, TextSidecarName}

\* the container statuses of the pods of the model: the adapter running or
\* killed, the other containers running
ContainerStatuses ==
    {ContainerStatus(TextAdapterName, s) : s \in {Running, Terminated(ContainerReasonOOMKilled, 137)}}
    \cup {ContainerStatus(n, Running) : n \in ContainerNames \ {TextAdapterName}}

\* pod.Status.ContainerStatuses of the pods of the model, in pod order
PodStatuses ==
    UNION {[1..n -> ContainerStatuses] : n \in 0..MaxContainers}

\* the values of ADAPTER_CONTAINER_NAME of the model: unset, the names of
\* containers, and a name that differs from one of them in case only
AdapterContainerNames ==
    {<<>>, TextAdapterUpperName} \cup ContainerNames

\* what Pods(namespace).Get returns for a pod whose statuses are css
PodGetOutcomes(css) ==
    {[pod |-> css, err |-> Nil],
     [pod |-> NoPodStatus, err |-> NotFound],
     [pod |-> NoPodStatus, err |-> ServerError]}

\* GetPodStatus for the outcome got of the Get request
GetPodStatus(got) ==
    IF got.err # Nil
    THEN [status |-> NoPodStatus,
          err |-> Wrap("k8s.GetPodStatus",
                       Cat(<<FmtFailedToGetPod, jobNamespace, FmtPod, podName, FmtColon>>),
                       got.err)]
    ELSE [status |-> got.pod, err |-> Nil]

\* for _, cs := range podStatus.ContainerStatuses { if <test> { return &cs, nil } }:
\* the first status, in pod order, whose index is in hits; notFound after
\* the loop
FirstStatus(css, hits, notFound) ==
    IF hits = {} THEN [cs |-> NoContainerStatus, err |-> notFound]
    ELSE [cs |-> css[CHOOSE i \in hits : \A j \in hits : i <= j], err |-> Nil]

\* variant of GetAdapterContainerStatus: with no name given, the first
\* container of the pod is taken
GetAdapterContainerStatus_FirstAny(got, containerName) ==
    LET ps == GetPodStatus(got)
        css == ps.status
    IN  IF ps.err # Nil THEN [cs |-> NoContainerStatus, err |-> ps.err]
        ELSE IF containerName # <<>>
        THEN FirstStatus(css, {i \in 1..Len(css) : css[i].name = containerName},
                 NewError("k8s.ContainerNotFound",
                          Cat(<<FmtContainerNotFound, jobNamespace, FmtPod, podName,
                                FmtContainer, containerName>>)))
        ELSE FirstStatus(css, 1..Len(css),
                 NewError("k8s.AdapterContainerNotFound",
                          Cat(<<FmtAdapterContainerNotFound, jobNamespace, FmtPod, podName>>)))

\* GetAdapterContainerStatus(ctx, podName, containerName) for the outcome got
\* of the Get request
GetAdapterContainerStatus(got, containerName) ==
    LET ps == GetPodStatus(got)
        css == ps.status
    IN  IF ps.err # Nil THEN [cs |-> NoContainerStatus, err |-> ps.err]
        ELSE IF containerName # <<>>
        THEN FirstStatus(css, {i \in 1..Len(css) : css[i].name = containerName},
                 NewError("k8s.ContainerNotFound",
                          Cat(<<FmtContainerNotFound, jobNamespace, FmtPod, podName,
                                FmtContainer, containerName>>)))
        ELSE FirstStatus(css, {i \in 1..Len(css) : css[i].name # StatusReporterContainerName},
                 NewError("k8s.AdapterContainerNotFound",
                          Cat(<<FmtAdapterContainerNotFound, jobNamespace, FmtPod, podName>>)))

PodInit ==
    /\ ReporterNotStarted
    /\ ClientIdle
    /\ RecIdle
    /\ CfgIdle
    /\ MainIdle
    /\ podPC = "called"
    /\ pod \in PodStatuses
    /\ adapterContainerName \in AdapterContainerNames
    /\ podGot = [pod |-> NoPodStatus, err |-> Nil]
    /\ gacOut = [err |-> Nil]

\* c.clientset.CoreV1().Pods(c.namespace).Get(ctx, podName, ...) returns
PodGet ==
    /\ podPC = "called"
    /\ podGot' \in PodGetOutcomes(pod)
    /\ podPC' = "got"
    /\ UNCHANGED <<pod, adapterContainerName, gacOut>>
    /\ UNCHANGED <<reporterVars, clientVars, recVars, cfgVars, mainVars>>

\* GetAdapterContainerStatus returns
GetAdapterContainerStatusReturn ==
    /\ podPC = "got"
    /\ gacOut' = GetAdapterContainerStatus(podGot, adapterContainerName)
    /\ podPC' = "returned"
    /\ UNCHANGED <<pod, adapterContainerName, podGot>>
    /\ UNCHANGED <<reporterVars, clientVars, recVars, cfgVars, mainVars>>

PodNext ==
    \/ PodGet
    \/ GetAdapterContainerStatusReturn

PodSpec ==
    PodInit /\ [][PodNext]_vars

(***************************************************************************)
(* Properties of Run                                                       *)
(***************************************************************************)
\* Run has passed its select: one case has been chosen
Resolved ==
    runPC \notin Selects

\* Run has called UpdateJobStatus
HasPublished ==
    published # <<>>

\* the exit-code reasons of UpdateFromTerminatedContainer
ExitCodeReasons ==
    {ReasonAdapterOOMKilled, ReasonAdapterExitedWithError, ReasonAdapterMissingResults}

ResolutionPaths ==
    {"result", "error", "terminated", "timeout"}

\* C1: in every execution of Run the coordinator takes exactly one of the
\* four resolution paths: none while it waits in a select, one from then on,
\* never a second one, whatever is still buffered in the channels.
C1_ExactlyOneResolution ==
    /\ Len(resolution) <= 1
    /\ Resolved <=> Len(resolution) = 1
    /\ \A i \in 1..Len(resolution) : resolution[i] \in ResolutionPaths

\* C1 witness: Run has returned after the result path while the terminated
\* signal, sent as well, is still buffered and was never acted upon.
C1_Witness ==
    /\ runPC = "returned"
    /\ resolution = <<"result">>
    /\ chTerminated # <<>>

\* C2: when HandleTermination's parse of the artifact yields a valid record,
\* the published condition is the record's: status True iff the record's
\* status is success, reason and message the record's, whatever the
\* termination info; UpdateFromTerminatedContainer is not used.
C2_ArtifactWinsOverExitCode ==
    (resolution = <<"terminated">> /\ HasPublished /\ tryParse.err = Nil) =>
        LET p == published[1]
            rec == tryParse.res
        IN  /\ p.by = "UpdateFromResult"
            /\ (p.cond.status = ConditionStatusTrue) <=> (rec.status = StatusSuccess)
            /\ p.cond.status \in {ConditionStatusTrue, ConditionStatusFalse}
            /\ p.cond.reason = rec.reason
            /\ p.cond.message = rec.message
            /\ p.cond.reason \notin ExitCodeReasons

\* C2 witness: a container reported OOMKilled with exit code 137 while the
\* artifact holds a valid success record: the record is published.
C2_Witness ==
    /\ resolution = <<"terminated">>
    /\ HasPublished
    /\ tryParse.err = Nil
    /\ runSig.term = Terminated(ContainerReasonOOMKilled, 137)
    /\ published[1].cond.status = ConditionStatusTrue
    /\ published[1].cond.reason = TextAllChecksPassed

\* C3 (as claimed): on the Timeout path, when the state query reports the
\* container terminated, a valid artifact present at that moment (here: a
\* valid artifact that is at the path, unchanged, during the whole run)
\* determines the published condition.
C3_TimeoutPathReadsArtifact ==
    (/\ resolution = <<"timeout">>
     /\ HasPublished
     /\ published[1].by # "UpdateFromTimeout"
     /\ writes = 0
     /\ ParseFile(fs).err = Nil) =>
        published[1].cond = ResultCondition(ParseFile(fs).res)

C5_ExitCodeClassification ==
    \A i \in 1..Len(published) :
        published[i].by = "UpdateFromTerminatedContainer" =>
            LET c == published[i].cond
                t == runSig.term
            IN  /\ c.status = ConditionStatusFalse
                /\ t.reason = ContainerReasonOOMKilled =>
                      c.reason = ReasonAdapterOOMKilled
                /\ (t.reason # ContainerReasonOOMKilled /\ t.exitCode # 0) =>
                      /\ c.reason = ReasonAdapterExitedWithError
                      /\ Contains(c.message, Itoa(t.exitCode))
                      /\ Contains(c.message, t.reason)
                /\ (t.reason # ContainerReasonOOMKilled /\ t.exitCode = 0) =>
                      c.reason = ReasonAdapterMissingResults

\* C5 witness: an OOMKilled termination with exit code 0 has been classified.
C5_Witness ==
    /\ HasPublished
    /\ published[1].by = "UpdateFromTerminatedContainer"
    /\ runSig.term = Terminated(ContainerReasonOOMKilled, 0)
    /\ published[1].cond.reason = ReasonAdapterOOMKilled

\* C5 second case reached: exit code 1 with reason Error, message holding
\* "1" and "Error"
C5_WitnessExitCode ==
    /\ HasPublished
    /\ published[1].by = "UpdateFromTerminatedContainer"
    /\ runSig.term = Terminated(TextError, 1)
    /\ Contains(published[1].cond.message, <<49>>)
    /\ Contains(published[1].cond.message, TextError)

\* the artifacts that are present but invalid, and a fragment of the
\* diagnostic the parser gives for each
InvalidArtifacts ==
    {ArtifactBadStatus, ArtifactBadJSON, ArtifactEmpty, ArtifactOversized}

Diagnostic(f) ==
    IF f = ArtifactBadStatus THEN FmtMustBeEither
    ELSE IF f = ArtifactBadJSON THEN TextJSONSyntax
    ELSE IF f = ArtifactEmpty THEN FmtFileEmpty
    ELSE FmtTooLarge

\* C6 (as claimed): with an artifact that is present but invalid (here: from
\* the start, never changed, in a run that neither reaches its deadline nor
\* is cancelled), Run publishes exactly one condition, with status False and
\* reason InvalidResultFormat and the parser's diagnostic in its message,
\* also when the container watcher observes the container as terminated.
C6_Original ==
    (/\ runPC = "returned"
     /\ writes = 0
     /\ fs \in InvalidArtifacts
     /\ ~deadline
     /\ ~cancelled) =>
        /\ Len(published) = 1
        /\ published[1].cond.status = ConditionStatusFalse
        /\ published[1].cond.reason = ReasonInvalidResultFormat
        /\ Contains(published[1].cond.message, Diagnostic(fs))

\* C6 (amended): with an artifact that is present but invalid, Run
\* publishes at most one condition (exactly one once it returns), with
\* status False; the reason is InvalidResultFormat with the parser's
\* diagnostic in the message when Run resolves through the error signal, the
\* exit-code classification when it resolves through the terminated signal,
\* and AdapterTimeout or the exit-code classification on the Timeout path;
\* the result path is never taken.
C6_Amended ==
    (writes = 0 /\ fs \in InvalidArtifacts) =>
        /\ Len(published) <= 1
        /\ runPC = "returned" => Len(published) = 1
        /\ HasPublished =>
              LET c == published[1].cond
              IN  /\ c.status = ConditionStatusFalse
                  /\ resolution[1] # "result"
                  /\ resolution[1] = "error" =>
                        /\ c.reason = ReasonInvalidResultFormat
                        /\ Contains(c.message, Diagnostic(fs))
                  /\ resolution[1] = "terminated" =>
                        c.reason = TerminationReason(runSig.term)
                  /\ resolution[1] = "timeout" =>
                        c.reason \in ExitCodeReasons \cup {ReasonAdapterTimeout}

\* C6 witness: the artifact is not JSON, the container watcher has seen the
\* container terminated and its signal is buffered, and Run has resolved
\* through the error signal with InvalidResultFormat.
C6_Witness ==
    /\ runPC = "returned"
    /\ writes = 0
    /\ fs = ArtifactBadJSON
    /\ resolution = <<"error">>
    /\ chTerminated # <<>>
    /\ published[1].cond.reason = ReasonInvalidResultFormat
    /\ Contains(published[1].cond.message, TextJSONSyntax)

\* "5m0s", the configured deadline of 300 seconds as Go prints it
TextFiveMinutes ==
    <<53,109,48,115>>

\* C7 (as claimed): when the Timeout path's query does not report a
\* terminated container, Run makes that one query, publishes status False,
\* reason AdapterTimeout with the deadline in the message, and returns the
\* timeout error.
C7_Original ==
    (/\ runPC = "returned"
     /\ resolution = <<"timeout">>
     /\ published[1].by = "UpdateFromTimeout") =>
        /\ Len(timeoutQueries) = 1
        /\ published[1].cond.status = ConditionStatusFalse
        /\ published[1].cond.reason = ReasonAdapterTimeout
        /\ Contains(published[1].cond.message, TextFiveMinutes)
        /\ reportErr.msg = TextTimeoutWaiting

\* C7 (amended): as C7, but the timeout error is returned only if the
\* publish succeeds; if it fails, Run returns the wrapped publish failure.
C7_Amended ==
    (/\ runPC = "returned"
     /\ resolution = <<"timeout">>
     /\ published[1].by = "UpdateFromTimeout") =>
        /\ Len(timeoutQueries) = 1
        /\ published[1].cond.status = ConditionStatusFalse
        /\ published[1].cond.reason = ReasonAdapterTimeout
        /\ Contains(published[1].cond.message, TextFiveMinutes)
        /\ published[1].ok => reportErr.msg = TextTimeoutWaiting
        /\ ~published[1].ok =>
              /\ ErrorsIs(reportErr, "publish")
              /\ reportErr.msg # TextTimeoutWaiting

\* C7 witness: the deadline passed with the container still running and no
\* signal; AdapterTimeout was published and the timeout error returned.
C7_Witness ==
    /\ runPC = "returned"
    /\ deadline
    /\ ~cancelled
    /\ container = Running
    /\ resolution = <<"timeout">>
    /\ published[1].cond.reason = ReasonAdapterTimeout
    /\ published[1].ok
    /\ reportErr.msg = TextTimeoutWaiting

\* C8: Run returns nil if and only if the condition was published by
\* UpdateFromResult (from a valid record, reached by the result signal or by
\* HandleTermination) and the publish succeeded.
C8_NilIffArtifactPublished ==
    runPC = "returned" =>
        /\ Len(published) = 1
        /\ (reportErr = Nil) <=>
              (published[1].by = "UpdateFromResult" /\ published[1].ok)
        /\ published[1].by = "UpdateFromResult" =>
              /\ resolution[1] \in {"result", "terminated"}
              /\ runSig.res.status \in {StatusSuccess, StatusFailure}

\* C8 witness: a record with status failure, read by HandleTermination, was
\* published and Run returned nil.
C8_Witness ==
    /\ runPC = "returned"
    /\ resolution = <<"terminated">>
    /\ published[1].by = "UpdateFromResult"
    /\ published[1].cond.status = ConditionStatusFalse
    /\ published[1].ok
    /\ reportErr = Nil

\* C8 other direction reached: the publish succeeded on the error path and
\* Run returned the parse error
C8_WitnessError ==
    /\ runPC = "returned"
    /\ resolution = <<"error">>
    /\ published[1].ok
    /\ reportErr # Nil
    /\ reportErr = runSig.err

\* C9: whenever the publish fails, Run returns an error that wraps the
\* publish failure and is not the error of the semantic outcome (the parse
\* error, the termination error, the timeout error).
C9_PublishFailureReturned ==
    (runPC = "returned" /\ ~published[1].ok) =>
        /\ reportErr # Nil
        /\ ErrorsIs(reportErr, "publish")
        /\ Contains(reportErr.msg, TextPublishFailed)
        /\ HasPrefix(reportErr.msg, FmtUpdateFailedPod)
              \/ HasPrefix(reportErr.msg, FmtUpdateFailed)
        /\ ~ErrorsIs(reportErr, "reporter.timeout")
        /\ ~ErrorsIs(reportErr, "reporter.terminated")
        /\ resolution[1] = "error" => reportErr # runSig.err

\* C9 witness: a valid success record whose publish failed: Run returned the
\* wrapped publish failure.
C9_Witness ==
    /\ runPC = "returned"
    /\ published[1].by = "UpdateFromResult"
    /\ published[1].cond.status = ConditionStatusTrue
    /\ ~published[1].ok
    /\ ErrorsIs(reportErr, "publish")

\* C10: Run calls UpdateJobStatus exactly once: never before it has chosen a
\* resolution, never a second time, and always before it closes the done
\* channel and returns, whether the call succeeds or fails.
C10_PublishExactlyOnce ==
    /\ Len(published) <= 1
    /\ ~Resolved => published = <<>>
    /\ runPC \in {"close", "wait", "returned"} => Len(published) = 1

\* C10 witness: Run returned after a single, failed publish on the Timeout
\* path with a terminated container.
C10_Witness ==
    /\ runPC = "returned"
    /\ Len(published) = 1
    /\ ~published[1].ok
    /\ resolution = <<"timeout">>
    /\ published[1].by = "UpdateFromTerminatedContainer"

\* Any step of the artifact watcher (pollForResultFile).
PollNext ==
    \/ PollExit \/ PollTick \/ PollStat \/ PollParseFileStat
    \/ PollParseFileRead \/ PollSendError \/ PollSendResult

\* Any step of the container watcher (monitorContainerStatus).
MonNext ==
    MonCheck \/ MonSend \/ MonExit \/ MonTick

\* Any step of the coordinator (Run and the functions it calls).
RunNext ==
    \/ \E at \in Selects : RunRecvResult(at) \/ RunRecvError(at) \/ RunRecvTerminated(at)
    \/ RunDone \/ RunDefault
    \/ TryParseStat \/ TryParseFileStat \/ TryParseFileRead
    \/ UpdateFromResult \/ UpdateFromError \/ UpdateFromTerminatedContainer
    \/ UpdateFromTimeout \/ UpdateFromTimeoutCondition
    \/ RunClose \/ RunReturn

\* The three signal channels hold nothing.
ChannelsEmpty == chResult = <<>> /\ chError = <<>> /\ chTerminated = <<>>

\* The resolutions whose channel holds a signal.
BufferedSignals ==
    {"result" : x \in {1} \cap DOMAIN chResult}
        \cup {"error" : x \in {1} \cap DOMAIN chError}
        \cup {"terminated" : x \in {1} \cap DOMAIN chTerminated}

\* C11: when Run leaves the non-blocking check it makes after the deadline,
\* it resolves with a signal that one of the channels held, and never with
\* the Timeout path, if any channel held a signal; it enters the Timeout path
\* only from that check and only with all three channels empty.
C11_SignalBeatsTimeout ==
    [][/\ (runPC = "inner" /\ runPC' # "inner" /\ ~ChannelsEmpty) =>
            /\ resolution' \in {<<r>> : r \in BufferedSignals}
            /\ selectedAt' = "inner"
            /\ runPC' # "UpdateFromTimeout"
       /\ (resolution' # resolution /\ resolution'[Len(resolution')] = "timeout") =>
            /\ runPC = "inner"
            /\ ChannelsEmpty]_vars

\* C11 witness: the deadline passed with a result and a terminated signal both
\* buffered; the inner check took the result and is publishing it, the
\* terminated signal is still in its channel.
C11_Witness ==
    /\ selectedAt = "inner"
    /\ resolution = <<"result">>
    /\ chTerminated # <<>>
    /\ HasPublished
    /\ published[1].by = "UpdateFromResult"

\* C12: cancellation of the caller's context, with the deadline not reached,
\* ends Run's blocking select as the deadline does; with no signal buffered
\* the non-blocking check falls to the Timeout path; and a Run that took the
\* Timeout path with a container still running and a publish that succeeded
\* has published status False with reason AdapterTimeout and returned the
\* error "timeout waiting for adapter results", whichever of cancellation and
\* deadline ended the wait.
C12_CancelTakesTimeoutPath ==
    /\ (cancelled /\ ~deadline /\ runPC = "select") => ENABLED RunDone
    /\ (cancelled /\ ~deadline /\ runPC = "inner" /\ ChannelsEmpty) =>
            ENABLED RunDefault
    /\ ( /\ runPC = "returned"
         /\ resolution = <<"timeout">>
         /\ container = Running
         /\ published[1].ok ) =>
            /\ Len(published) = 1
            /\ published[1].cond.type = conditionType
            /\ published[1].cond.status = ConditionStatusFalse
            /\ published[1].cond.reason = ReasonAdapterTimeout
            /\ reportErr.msg = TextTimeoutWaiting
            /\ ErrorsIs(reportErr, "reporter.timeout")

\* C12 witness: the caller cancelled, the deadline never passed, no watcher
\* sent anything, the container is still running and the publish succeeded:
\* Run returned the timeout error after publishing AdapterTimeout.
C12_Witness ==
    /\ cancelled /\ ~deadline
    /\ runPC = "returned"
    /\ resolution = <<"timeout">>
    /\ ChannelsEmpty
    /\ container = Running
    /\ published[1].ok
    /\ published[1].ctxCancelled
    /\ published[1].cond.reason = ReasonAdapterTimeout
    /\ reportErr.msg = TextTimeoutWaiting

\* C13: once Run has returned, the done channel is closed and both watchers
\* have exited: neither can take another step, so no file check and no
\* container-state query happens after the return.
C13_ReturnAfterWatchersExit ==
    runPC = "returned" =>
        /\ done
        /\ pollPC = "exited" /\ monPC = "exited"
        /\ ~ENABLED PollNext
        /\ ~ENABLED MonNext

\* C13 witness: Run resolved with a result while the container was running
\* and neither deadline nor cancellation happened, so the container watcher
\* left its loop because of the done channel, and Run returned after it.
C13_Witness ==
    /\ runPC = "returned"
    /\ ~deadline /\ ~cancelled
    /\ resolution = <<"result">>
    /\ container = Running
    /\ monPC = "exited" /\ pollPC = "exited"
    /\ done

\* C14: a watcher that is at its send when Run is no longer receiving (Run
\* has resolved, so the signal will never be consumed) can always take the
\* send step, into the channel's buffer or by the done case; and while Run
\* waits for the watchers, a watcher at its select (the only other place
\* where it can block) can take the done case, and Run can return once both
\* have exited, so the wait cannot deadlock.
C14_SendNeverBlocks ==
    /\ (pollPC = "sendError" /\ runPC \notin Selects) => ENABLED PollSendError
    /\ (pollPC = "sendResult" /\ runPC \notin Selects) => ENABLED PollSendResult
    /\ (monPC = "send" /\ runPC \notin Selects) => ENABLED MonSend
    /\ (runPC = "wait" /\ pollPC = "select") => ENABLED PollExit
    /\ (runPC = "wait" /\ monPC = "select") => ENABLED MonExit
    /\ (runPC = "wait" /\ pollPC = "exited" /\ monPC = "exited") =>
            ENABLED RunReturn

\* C14 witness: Run resolved with the result, the container watcher's
\* terminated signal was never consumed and is still in its channel, both
\* watchers have exited and Run has returned.
C14_Witness ==
    /\ runPC = "returned"
    /\ resolution = <<"result">>
    /\ chTerminated # <<>>
    /\ pollPC = "exited" /\ monPC = "exited"

\* The usual start of a run: the adapter is running and has written nothing.
\* Every other combination is reached from it by the environment's steps.
FairInit ==
    /\ Init
    /\ fs = Absent
    /\ container = Running

\* Fair scheduling of Run: the coordinator and both watchers keep taking
\* steps while they can (every collaborator call returns), the deadline of
\* timeoutCtx eventually passes, and a watcher's select, which picks among
\* its ready cases at random, does not avoid the done and ctx.Done() cases
\* forever.
FairSpec ==
    /\ FairInit /\ [][Next]_vars
    /\ WF_vars(RunNext)
    /\ WF_vars(PollNext)
    /\ WF_vars(MonNext)
    /\ WF_vars(DeadlineExpires)
    /\ SF_vars(PollExit)
    /\ SF_vars(MonExit)

\* C15: under fair scheduling every Run eventually returns, and once the
\* done channel is closed or timeoutCtx is done both watchers eventually
\* exit.
C15_RunEventuallyReturns ==
    /\ <>(runPC = "returned")
    /\ (done \/ TimeoutCtxDone) ~> (pollPC = "exited" /\ monPC = "exited")

\* C15 witness: no watcher ever sent a signal, the deadline passed without a
\* cancellation, Run resolved through the Timeout path and returned after
\* both watchers exited.
C15_Witness ==
    /\ runPC = "returned"
    /\ deadline /\ ~cancelled
    /\ resolution = <<"timeout">>
    /\ ChannelsEmpty
    /\ container = Running
    /\ pollPC = "exited" /\ monPC = "exited"

\* The number of resolutions Run took from the given signals: each is a
\* message Run received.
Received(signals) ==
    Cardinality({i \in DOMAIN resolution : resolution[i] \in signals})

\* The messages the artifact watcher has sent so far: those still in the
\* result and error channels and those Run received from them.
PollSent ==
    Len(chResult) + Len(chError) + Received({"result", "error"})

\* The messages the container watcher has sent so far.
MonSent ==
    Len(chTerminated) + Received({"terminated"})

\* C16: the artifact watcher sends at most one message over the result and
\* error channels together, the container watcher at most one on the
\* terminated channel, a watcher that has sent has exited, and no channel
\* holds more than one message.
C16_AtMostOneSendPerWatcher ==
    /\ PollSent <= 1
    /\ MonSent <= 1
    /\ PollSent = 1 => pollPC = "exited"
    /\ MonSent = 1 => monPC = "exited"
    /\ Len(chResult) <= 1 /\ Len(chError) <= 1 /\ Len(chTerminated) <= 1

\* C16 witness: both watchers sent: Run took the terminated signal, the
\* artifact watcher's error is still in its channel, and both have exited.
C16_Witness ==
    /\ resolution = <<"terminated">>
    /\ chError # <<>>
    /\ PollSent = 1 /\ MonSent = 1
    /\ pollPC = "exited" /\ monPC = "exited"

\* C17: when HandleTermination could not use the artifact, whether the
\* artifact does not exist or exists and fails to be read, parsed or
\* validated, what it publishes and returns is determined by the termination
\* info and the publish outcome alone: the exit-code condition, published by
\* UpdateFromTerminatedContainer, and that function's error; never
\* InvalidResultFormat.
C17_InvalidArtifactAsMissing ==
    ( /\ resolution = <<"terminated">>
      /\ HasPublished
      /\ tryParse.err # Nil ) =>
        /\ published[1].by = "UpdateFromTerminatedContainer"
        /\ published[1].cond = TerminatedCondition(runSig.term)
        /\ published[1].cond.reason \in ExitCodeReasons
        /\ published[1].cond.reason # ReasonInvalidResultFormat
        /\ reportErr = TerminatedReturn(published[1].ok, runSig.term)

\* C17 witness: the container exited with code 1 and the artifact is there
\* but invalid; tryParseResultFile returned a parse failure, and Run published
\* AdapterExitedWithError and returned.
C17_Witness ==
    /\ runPC = "returned"
    /\ resolution = <<"terminated">>
    /\ writes = 0 /\ fs \in InvalidArtifacts
    /\ tryParse.err # Nil /\ ~IsNotExist(tryParse.err)
    /\ runSig.term = Terminated(TextError, 1)
    /\ published[1].cond.reason = ReasonAdapterExitedWithError
    /\ ErrorsIs(reportErr, "reporter.terminated")

\* The fixed reasons of the engine.
ReasonVocabulary ==
    {ReasonAdapterCrashed, ReasonAdapterOOMKilled, ReasonAdapterExitedWithError,
     ReasonAdapterTimeout, ReasonInvalidResultFormat, ReasonAdapterMissingResults}

\* The artifacts that hold a valid Outcome Record: well-formed JSON of an
\* acceptable size whose status is "success" or "failure".
ValidArtifacts ==
    {f \in Artifacts : /\ f.wellFormed
                       /\ f.size \in 1..maxResultFileSize
                       /\ f.status \in {StatusSuccess, StatusFailure}}

\* reason is the normalized form of raw: raw without the white space around
\* it, cut to at most maxReasonLength bytes, or the default reason when that
\* is empty.
IsNormalizedReason(reason, raw) ==
    /\ Len(reason) \in 1..maxReasonLength
    /\ IF TrimSpace(raw) = <<>>
       THEN reason = DefaultReason
       ELSE HasPrefix(TrimSpace(raw), reason)

\* C18: every published condition has the configured condition type, and its
\* reason is one of the fixed reasons or, when UpdateFromResult published it,
\* the normalized reason of a valid record of the artifact.
C18_PublishedReasonVocabulary ==
    \A i \in DOMAIN published :
        /\ published[i].cond.type = conditionType
        /\ \/ published[i].cond.reason \in ReasonVocabulary
           \/ /\ published[i].by = "UpdateFromResult"
              /\ \E f \in ValidArtifacts :
                    IsNormalizedReason(published[i].cond.reason, f.reason)

\* C18 witness: a valid record whose reason is only white space was
\* published with the default reason.
C18_Witness ==
    /\ HasPublished
    /\ published[1].by = "UpdateFromResult"
    /\ runSig.res.reason = DefaultReason
    /\ published[1].cond.reason = DefaultReason
    /\ published[1].cond.type = conditionType

\* The type, status, reason and message of a condition.
Semantics(c) ==
    <<c.type, c.status, c.reason, c.message>>

\* C19: when the job that UpdateJobStatus has read holds a condition with
\* the type, status, reason and message of the argument, the call returns
\* nil at once: it sends no UpdateStatus request and the Job, with that
\* condition's transition time, stays as it is; this holds for every call,
\* the first and the repeated ones.
C19_IdempotentUpdate ==
    [][( /\ ujPC = "merge" /\ ujPC' # "merge"
         /\ \E i \in DOMAIN ujJob.conditions :
                Semantics(ujJob.conditions[i]) = Semantics(ujCondition) ) =>
            /\ ujPC' = "returned"
            /\ ujErr' = Nil
            /\ ujUpdates' = ujUpdates
            /\ jobConditions' = jobConditions
            /\ jobVersion' = jobVersion]_vars

\* C19 witness: the second call in a row found its condition in the Job and
\* returned nil without an UpdateStatus request; the clock has advanced but
\* the condition still has the transition time of the one write made.
C19_Witness ==
    /\ ujCalls = 2
    /\ ujPC = "returned" /\ ujErr = Nil
    /\ ujGets = 1 /\ ujUpdates = 0
    /\ otherWrites = 0
    /\ jobVersion = 2
    /\ now = 3
    /\ \E i \in DOMAIN jobConditions :
          /\ Semantics(jobConditions[i]) = Semantics(ujCondition)
          /\ jobConditions[i].time = 2

\* C20: a successful write of UpdateJobStatus leaves the Job's list with the
\* new condition in the place of the first condition of its type, or at the
\* end when there was none; every other entry is the same at the same
\* place, and the list is at most one entry longer.
C20_ReplaceOrAppend ==
    [][( /\ ujPC = "update" /\ ujPC' = "returned" /\ ujErr' = Nil ) =>
        LET old == jobConditions
            new == jobConditions'
            ofType == {i \in DOMAIN old : old[i].type = ujCondition.type}
            at == IF ofType = {} THEN Len(old) + 1
                  ELSE CHOOSE i \in ofType : \A j \in ofType : i <= j
        IN  /\ Len(new) = IF ofType = {} THEN Len(old) + 1 ELSE Len(old)
            /\ Semantics(new[at]) = Semantics(ujCondition)
            /\ ujCondition.time # ZeroTime => new[at].time = ujCondition.time
            /\ new[at].time \in 1..now
            /\ \A i \in DOMAIN old : i # at => new[i] = old[i]]_vars

\* C20 witness: the first call replaced the stored condition, which stood
\* before the Job's Complete condition, by one with status True; no other
\* client wrote.
C20_Witness ==
    /\ ujCalls = 1
    /\ ujPC = "returned" /\ ujErr = Nil
    /\ ujUpdates = 1
    /\ otherWrites = 0
    /\ Len(jobConditions) = 2
    /\ jobConditions[1].type = conditionType
    /\ jobConditions[1].status = ConditionStatusTrue
    /\ jobConditions[2] = JobComplete

\* C21: a call of UpdateJobStatus whose condition status is none of True,
\* False and Unknown never gets past the status switch: it returns an error
\* naming the status, has sent no Get and no UpdateStatus request, and has
\* used none of the retries of the backoff; the Job is not written by it.
C21_InvalidStatusRejected ==
    (ujPC # "idle" /\ ujCondition.status \notin
        {ConditionStatusTrue, ConditionStatusFalse, ConditionStatusUnknown}) =>
        /\ ujPC \in {"validate", "returned"}
        /\ ujGets = 0 /\ ujUpdates = 0
        /\ ujSteps = DefaultBackoffSteps
        /\ ujPC = "returned" =>
              /\ ujErr # Nil
              /\ ErrorsIs(ujErr, "k8s.UpdateJobStatus/status")
              /\ ~ErrorsIs(ujErr, "k8s.Conflict")
              /\ Contains(ujErr.msg, ujCondition.status)

\* C21 witness: a call with the status "invalid" has returned its error
\* while the Job is there and untouched.
C21_Witness ==
    /\ ujPC = "returned"
    /\ ujCondition.status = TextInvalid
    /\ ujErr # Nil
    /\ ujGets = 0 /\ ujUpdates = 0
    /\ jobExists /\ jobVersion = 1

\* C22: Validate returns an error naming the status field exactly when the
\* status of the record is neither "success" nor "failure" (compared byte
\* for byte; the empty status fails too), and a call that returns an error
\* leaves the reason and the message of the record as they were.
C22_StatusErrorIffInvalid ==
    recPC = "validated" =>
        /\ recOut.err # Nil <=> recIn.status \notin {StatusSuccess, StatusFailure}
        /\ recOut.err # Nil =>
              /\ ErrorsIs(recOut.err, "result.ResultError")
              /\ HasPrefix(recOut.err.msg, FieldStatus)
              /\ recOut.res = recIn
        /\ recOut.res.status = recIn.status

\* an empty status with a reason and a message that Validate would change
C22_Witness ==
    /\ recPC = "validated"
    /\ recIn.status = <<>>
    /\ recIn.reason = <<32,32,32>>
    /\ recIn.message = Repeat(maxMessageLength + 1)
    /\ recOut.err # Nil
    /\ recOut.res = recIn

\* "Success" is rejected although it differs from the token only in case
C22_WitnessCase ==
    /\ recPC = "validated"
    /\ recIn.status = <<83>> \o Tail(StatusSuccess)
    /\ recOut.err # Nil

\* the number of bytes of the UTF-8 character that the byte b starts, 0 when
\* b starts none
CharLen(b) ==
    IF b < 128 THEN 1
    ELSE IF b \in 194..223 THEN 2
    ELSE IF b \in 224..239 THEN 3
    ELSE IF b \in 240..244 THEN 4
    ELSE 0

\* s is a sequence of whole UTF-8 characters: it is empty or starts with a
\* character, and every character has its continuation bytes and is
\* followed by the next character or by the end of the text
ValidUTF8(s) ==
    /\ s # <<>> => RuneStart(s[1])
    /\ \A i \in 1..Len(s) :
          RuneStart(s[i]) =>
              LET n == CharLen(s[i])
              IN  /\ n > 0
                  /\ i + n - 1 <= Len(s)
                  /\ \A k \in (i + 1)..(i + n - 1) : s[k] \in 128..191
                  /\ i + n <= Len(s) => RuneStart(s[i + n])

\* the normal form the claim describes for a field: the default for an empty
\* or white-space-only text, otherwise the trimmed text, truncated
NormalForm(s, default, maxBytes) ==
    IF TrimSpace(s) = <<>> THEN default
    ELSE truncateUTF8(TrimSpace(s), maxBytes)

\* C23: after Validate succeeded, the reason and the message of the record
\* are never empty: an empty or white-space-only reason has become
\* "NoReasonProvided", an empty or white-space-only message has become
\* "No message provided", and any other text is its trimmed form, truncated.
C23_NeverEmpty ==
    (recPC = "validated" /\ recOut.err = Nil) =>
        /\ recOut.res.reason # <<>>
        /\ recOut.res.message # <<>>
        /\ recOut.res.reason = NormalForm(recIn.reason, DefaultReason, maxReasonLength)
        /\ recOut.res.message = NormalForm(recIn.message, DefaultMessage, maxMessageLength)

\* the field s is longer than maxBytes and none of its bytes at index
\* 1..maxBytes (counted from 0) starts a character
NoCharacterStart(s, maxBytes) ==
    Len(s) > maxBytes /\ \A i \in 1..maxBytes : ~RuneStart(s[i + 1])

\* C23, amended: after Validate succeeded, an empty or white-space-only
\* reason has become "NoReasonProvided", an empty or white-space-only
\* message has become "No message provided", and any other text is its
\* trimmed form, truncated; the reason and the message are not empty when
\* they were valid UTF-8, and a field is left empty only when its trimmed
\* text was longer than the limit and had no start of a character in the
\* bytes that truncation looks at.
C23_Amended ==
    (recPC = "validated" /\ recOut.err = Nil) =>
        /\ recOut.res.reason = NormalForm(recIn.reason, DefaultReason, maxReasonLength)
        /\ recOut.res.message = NormalForm(recIn.message, DefaultMessage, maxMessageLength)
        /\ TrimSpace(recIn.reason) = <<>> => recOut.res.reason = DefaultReason
        /\ TrimSpace(recIn.message) = <<>> => recOut.res.message = DefaultMessage
        /\ ValidUTF8(recIn.reason) => recOut.res.reason # <<>>
        /\ ValidUTF8(recIn.message) => recOut.res.message # <<>>
        /\ recOut.res.reason = <<>> =>
              NoCharacterStart(TrimSpace(recIn.reason), maxReasonLength)
        /\ recOut.res.message = <<>> =>
              NoCharacterStart(TrimSpace(recIn.message), maxMessageLength)

\* a white-space-only reason has become the default, and a message with
\* white space before more than 1024 bytes was trimmed and truncated
C23_Witness ==
    /\ recPC = "validated"
    /\ recOut.err = Nil
    /\ recIn.reason = <<9,10,32>>
    /\ recOut.res.reason = DefaultReason
    /\ recIn.message = <<32,32>> \o Repeat(maxMessageLength + 1)
    /\ recOut.res.message = Repeat(maxMessageLength)

\* Validate succeeded and left an empty reason
C23_EmptyReason ==
    /\ recPC = "validated"
    /\ recOut.err = Nil
    /\ recIn.reason = [i \in 1..(maxReasonLength + 1) |-> 128]
    /\ recOut.res.reason = <<>>

\* every byte of s is a single-byte character
SingleByteText(s) ==
    \A i \in 1..Len(s) : s[i] < 128

\* what the claim says of t, the truncation of the text s to maxBytes
TruncatedAsClaimed(s, t, maxBytes) ==
    Len(s) > maxBytes =>
        /\ HasPrefix(s, t)
        /\ Len(t) <= maxBytes
        /\ ValidUTF8(t)
        /\ SingleByteText(s) => Len(t) = maxBytes

\* C24 as stated: for every byte string longer than the limit, truncation
\* returns a prefix of at most the limit that is valid standalone text, and
\* of exactly the limit for single-byte text.
C24_Original ==
    recPC = "truncated" =>
        /\ TruncatedAsClaimed(recIn.reason, recCut.reason, maxReasonLength)
        /\ TruncatedAsClaimed(recIn.message, recCut.message, maxMessageLength)

\* what truncation does with the text s: for every s longer than the limit
\* a prefix of at most the limit that is empty or is followed in s by a
\* byte that is no continuation byte; for valid UTF-8, valid UTF-8 that
\* stops at most three bytes before the limit.
TruncatedAsCoded(s, t, maxBytes) ==
    /\ Len(s) <= maxBytes => t = s
    /\ Len(s) > maxBytes =>
          /\ HasPrefix(s, t)
          /\ Len(t) <= maxBytes
          /\ t = <<>> \/ RuneStart(s[Len(t) + 1])
          /\ \A k \in (Len(t) + 2)..(maxBytes + 1) : ~RuneStart(s[k])
          /\ ValidUTF8(s) => (ValidUTF8(t) /\ Len(t) >= maxBytes - 3)
          /\ SingleByteText(s) => Len(t) = maxBytes

\* C24, amended: for every valid UTF-8 text longer than the limit (128 bytes
\* for the reason, 1024 for the message) truncation returns a prefix of at
\* most the limit that ends where a character ends, so that it is valid
\* UTF-8, and of exactly the limit for single-byte text; for a byte string
\* that is no valid UTF-8 the result is still a prefix of at most the limit.
C24_Amended ==
    recPC = "truncated" =>
        /\ TruncatedAsCoded(recIn.reason, recCut.reason, maxReasonLength)
        /\ TruncatedAsCoded(recIn.message, recCut.message, maxMessageLength)

\* a two-byte character lies across the limit of the reason and a
\* four-byte character across that of the message: both are left out whole
C24_Witness ==
    /\ recPC = "truncated"
    /\ recIn.reason = Repeat(maxReasonLength - 1) \o <<195,169>> \o <<65>>
    /\ recCut.reason = Repeat(maxReasonLength - 1)
    /\ recIn.message = Repeat(maxMessageLength - 3) \o <<240,159,152,128>> \o <<65>>
    /\ recCut.message = Repeat(maxMessageLength - 3)

\* a byte string that is no UTF-8 is cut to a text that is no UTF-8
C24_InvalidResult ==
    /\ recPC = "truncated"
    /\ Len(recIn.reason) > maxReasonLength
    /\ ~ValidUTF8(recCut.reason)

\* the error is one of the two size errors of ParseFile
IsSizeError(err) ==
    ErrorsIs(err, "result.ParseFile/empty") \/ ErrorsIs(err, "result.ParseFile/tooLarge")

\* the size of the file at the path is 0 or above the cap
BadSize(f) ==
    f.kind = "file" /\ (f.size = 0 \/ f.size > maxResultFileSize)

\* the step is the os.ReadFile and Parse of a ParseFile call
ReadsFile ==
    \/ pollPC = "ReadFile" /\ pollPC' # "ReadFile"
    \/ runPC = "tryParse/ReadFile" /\ runPC' # "tryParse/ReadFile"

\* C25: ParseFile fails with a size error exactly when the file at the path
\* is empty or larger than 1,048,576 bytes, and because the size check comes
\* before the read, the content of an empty or oversized file is never read
\* or decoded.
C25_SizeCheckedBeforeRead ==
    [][/\ (pollPC = "ParseFile" /\ pollPC' # "ParseFile") =>
             ((pollPC' = "sendError" /\ IsSizeError(pollOut'.err)) <=> BadSize(fs))
       /\ ReadsFile => ~BadSize(fs)]_vars

\* the part of C25 that holds: the size error is returned exactly for the
\* sizes 0 and above the cap that os.Stat reports, and the read is only
\* reached from a size check that passed
C25_SizeErrorIff ==
    [][/\ (pollPC = "ParseFile" /\ pollPC' # "ParseFile") =>
             /\ (pollPC' = "sendError" /\ IsSizeError(pollOut'.err)) <=> BadSize(fs)
             /\ pollPC' = "ReadFile" <=> (fs.kind = "file" /\ fs.size \in 1..maxResultFileSize)
       /\ (runPC = "tryParse/ParseFile" /\ runPC' # "tryParse/ParseFile") =>
             /\ (runPC' # "tryParse/ReadFile" /\ IsSizeError(tryParse'.err)) <=> BadSize(fs)
             /\ runPC' = "tryParse/ReadFile" <=> (fs.kind = "file" /\ fs.size \in 1..maxResultFileSize)]_vars

\* the artifact watcher has read and decoded a file above the cap and is
\* about to hand over its content as the result
C25_OversizedDecoded ==
    /\ pollPC = "sendResult"
    /\ writes = MaxWrites
    /\ fs = ArtifactOversized
    /\ pollOut.res.status = StatusSuccess

\* the step is one in which a ParseFile call of the artifact watcher fails
PollParseFileFails ==
    pollPC \in {"ParseFile", "ReadFile"} /\ pollPC' = "sendError"

\* the step is one in which the ParseFile call of tryParseResultFile fails
TryParseFileFails ==
    /\ runPC \in {"tryParse/ParseFile", "tryParse/ReadFile"}
    /\ runPC' \notin {"tryParse/ParseFile", "tryParse/ReadFile"}
    /\ tryParse'.err # Nil

\* C26: the error of a ParseFile call is identified as not-found
\* (errors.Is(err, os.ErrNotExist)) exactly when the call found the path
\* absent: the error for an empty file, an oversized file, bytes that do not
\* decode, a record that does not validate or a path that cannot be
\* accessed is never identified as not-found; the same holds of the error
\* that tryParseResultFile hands to HandleTermination.
C26_NotFoundIffAbsent ==
    [][/\ PollParseFileFails =>
             (ErrorsIs(pollOut'.err, ErrNotExist) <=> fs = Absent)
       /\ TryParseFileFails =>
             (ErrorsIs(tryParse'.err, ErrNotExist) <=> fs = Absent)
       /\ (runPC = "HandleTermination" /\ runPC' = "UpdateFromTerminatedContainer") =>
             (ErrorsIs(tryParse'.err, ErrNotExist) <=> fs = Absent)
       /\ \A f \in FileStates :
             ErrorsIs(ParseFileOf[f].err, ErrNotExist) <=> f = Absent]_vars

\* the artifact was removed after the os.Stat of tryParseResultFile: the
\* error of ParseFile, wrapped as "parse failed", is still not-found
C26_Witness ==
    /\ runPC = "UpdateFromTerminatedContainer"
    /\ fs = Absent
    /\ writes = MaxWrites
    /\ ErrorsIs(tryParse.err, "reporter.tryParseResultFile")
    /\ ErrorsIs(tryParse.err, "result.ParseFile/stat")
    /\ ErrorsIs(tryParse.err, ErrNotExist)

\* an artifact that exists and does not validate: not identified as not-found
C26_WitnessInvalid ==
    /\ runPC = "UpdateFromTerminatedContainer"
    /\ fs = ArtifactBadStatus
    /\ ErrorsIs(tryParse.err, "result.Parse/validate")
    /\ ~ErrorsIs(tryParse.err, ErrNotExist)

\* what the claim says Validate accepts: both timing values positive, the
\* poll interval below the max wait time, the results path absolute and not
\* ending in "/"
Accepts(c) ==
    /\ IntLess(IntZero, c.PollIntervalSeconds)
    /\ IntLess(IntZero, c.MaxWaitTimeSeconds)
    /\ IntLess(c.PollIntervalSeconds, c.MaxWaitTimeSeconds)
    /\ IsAbs(c.ResultsPath)
    /\ ~HasSuffix(c.ResultsPath, <<47>>)

\* C27: Config.Validate accepts a configuration exactly when the poll
\* interval and the max wait time are positive, the poll interval is
\* strictly less than the max wait time and the results path is absolute and
\* does not end in "/"; so in every run started from a loaded configuration
\* the poll interval is less than the deadline.
C27_PollBelowDeadline ==
    /\ cfgPC = "validated" => (cfgErr = Nil <=> Accepts(cfg))
    /\ cfgPC \in {"loaded", "started"} => Accepts(cfg)
    /\ cfgPC = "started" =>
          /\ DurationLess(DurationZero, pollInterval)
          /\ DurationLess(pollInterval, maxWaitTime)

\* the part of C27 that holds: what Validate accepts, and that Load returns
\* only configurations that Validate accepts
C27_ValidateIff ==
    /\ cfgPC = "validated" => (cfgErr = Nil <=> Accepts(cfg))
    /\ cfgPC \in {"loaded", "started"} => (cfgErr = Nil /\ Accepts(cfg))
    /\ cfgPC = "fatal" => cfgErr # Nil

\* a run whose deadline lies in the past: MAX_WAIT_TIME_SECONDS=9223372037
\* is accepted and its duration in nanoseconds has wrapped around
C27_DeadlineInPast ==
    /\ cfgPC = "started"
    /\ cfgEnv.poll = <<>>
    /\ cfgEnv.maxWait = TextOverflowSeconds
    /\ pollInterval = SecondsToDuration(IntOf(TextDefaultPollIntervalSeconds))
    /\ DurationLess(maxWaitTime, DurationZero)

\* C28: the exit code of waitForCompletion.  When its select takes the
\* reporter's value (as it must when no signal is waiting), no signal is
\* taken, the context is not cancelled and the code is 0 exactly when the
\* value is nil (context.Canceled gives 1).  When its select takes a signal,
\* the context is cancelled, and the code is 0 exactly when handleShutdown
\* then takes from the reporter, no later than shutdownTimeout, nil or an
\* error that matches context.Canceled; it is 1 for any other error and when
\* the timer is taken, which needs shutdownTimeout to have elapsed.
C28_ExitCode ==
    [][/\ (mainPC = "select" /\ mainPC' # "select") =>
             /\ sigChan = <<>> => mainPC' = "exited"
             /\ doneChan = <<>> => mainPC' = "shutdown"
             /\ mainPC' = "shutdown" => (ctxCancelled' /\ taken'.sig = Head(sigChan))
       /\ (mainPC = "select" /\ mainPC' = "exited") =>
             /\ taken' = [path |-> "normal", err |-> Head(doneChan), sig |-> "none"]
             /\ ~ctxCancelled'
             /\ exitCode' = (IF taken'.err = Nil THEN 0 ELSE 1)
       /\ (mainPC = "shutdown" /\ mainPC' = "exited") =>
             /\ ctxCancelled' /\ taken'.sig \in Signals
             /\ taken'.path \in {"shutdown", "timeout"}
             /\ taken'.path = "shutdown" =>
                   /\ elapsed <= shutdownTimeout
                   /\ taken'.err = Head(doneChan)
                   /\ exitCode' = (IF \/ taken'.err = Nil
                                      \/ ErrorsIs(taken'.err, "context.Canceled")
                                   THEN 0 ELSE 1)
             /\ taken'.path = "timeout" =>
                   /\ elapsed >= shutdownTimeout
                   /\ exitCode' = 1]_vars

\* a signal was taken and the reporter then delivered, as the timeout was
\* about to elapse, an error that wraps context.Canceled: exit code 0
C28_Witness ==
    /\ mainPC = "exited"
    /\ taken.path = "shutdown"
    /\ taken.sig = "SIGINT"
    /\ taken.err # ContextCanceled
    /\ ErrorsIs(taken.err, "context.Canceled")
    /\ elapsed = shutdownTimeout
    /\ exitCode = 0

\* the reporter completed with context.Canceled and no signal was taken:
\* exit code 1
C28_WitnessNormal ==
    /\ mainPC = "exited"
    /\ taken.path = "normal"
    /\ taken.err = ContextCanceled
    /\ exitCode = 1

\* the timeout elapsed while the reporter's value was already waiting
C28_WitnessTimeout ==
    /\ mainPC = "exited"
    /\ taken.path = "timeout"
    /\ doneChan # <<>>
    /\ exitCode = 1

\* the step is the os.Stat of a poll of the artifact watcher
PollStatStep ==
    pollPC = "stat" /\ pollPC' # "stat"

\* the step ends the hand-off of the artifact watcher's error
PollErrorHandOff ==
    pollPC = "sendError" /\ pollPC' # "sendError"

\* what C29 and its amendment share: while the artifact never existed the
\* watcher has sent nothing and is at no hand-off; a poll that finds the
\* path absent goes back to waiting with nothing sent; a stat failure other
\* than not-exist and a failed ParseFile lead to the hand-off of an error.
C29_Polling ==
    /\ []((writes = 0 /\ fs = Absent) =>
              (PollSent = 0 /\ pollPC \in {"select", "stat", "exited"}))
    /\ [][/\ PollStatStep =>
                /\ fs = Absent => (pollPC' = "select" /\ UNCHANGED <<chanVars, pollOut>>)
                /\ fs = NoAccess =>
                      /\ pollPC' = "sendError"
                      /\ pollOut'.err = StatFailure(Stat(fs))
                      /\ ~IsNotExist(pollOut'.err)
                /\ fs \in Artifacts => pollPC' = "ParseFile"
          /\ (pollPC \in {"ParseFile", "ReadFile"} /\ pollPC' \in {"select", "stat", "exited"})
                => FALSE
          /\ (pollPC # "sendError" /\ pollPC' = "sendError") =>
                (pollPC \in {"stat", "ParseFile", "ReadFile"} /\ pollOut'.err # Nil)]_vars

\* C29 as stated: an unexpected stat failure or an artifact that cannot be
\* parsed makes the watcher emit exactly one error signal and exit.
C29_Original ==
    /\ C29_Polling
    /\ [][PollErrorHandOff =>
              /\ pollPC' = "exited"
              /\ chError' = Append(chError, pollOut.err)]_vars

\* C29, amended: the artifact watcher emits neither a result nor an error
\* signal as long as every one of its checks finds the artifact absent; a
\* stat failure other than not-exist, or a file that exists and cannot be
\* parsed, takes it to the hand-off of one error, in which it either emits
\* the error signal or, when the stop signal has been broadcast, may abandon
\* the hand-off; in both cases it exits.
C29_Amended ==
    /\ C29_Polling
    /\ [][PollErrorHandOff =>
              /\ pollPC' = "exited"
              /\ \/ chError' = Append(chError, pollOut.err)
                 \/ done /\ UNCHANGED chError
              /\ UNCHANGED <<chResult, chTerminated>>]_vars

\* the path could not be examined: the watcher has emitted the stat failure
\* and exited, and nothing else is in the channels
C29_Witness ==
    /\ fs = NoAccess
    /\ writes = 0
    /\ pollPC = "exited"
    /\ Len(chError) = 1
    /\ ErrorsIs(chError[1], "reporter.pollForResultFile/stat")
    /\ chResult = <<>>

\* the watcher found an artifact it could not parse after the stop signal
\* had been broadcast, and exited without emitting its error
C29_Abandoned ==
    /\ pollPC = "exited"
    /\ pollOut.err # Nil
    /\ PollSent = 0
    /\ done

\* the step is a state query of the container watcher
MonCheckStep ==
    monPC = "check" /\ monPC' # "check"

\* the step ends the hand-off of the terminated signal
MonHandOff ==
    monPC = "send" /\ monPC' # "send"

\* what C30 and its amendment share: the watcher starts with a query; a
\* query of a container that has not terminated, a failed query and a nil
\* status send nothing and take the watcher to its timer wait; only a query
\* that observes the termination leads to the hand-off; the timer wait is
\* left for the next query, or for good once the stop signal, the deadline
\* or the cancellation is there.
C30_Monitoring ==
    /\ monPC = "check"
    /\ [](monPC \in {"check", "select"} => MonSent = 0)
    /\ [][/\ MonCheckStep =>
                /\ monPC' \in {"send", "select"}
                /\ UNCHANGED chanVars
                /\ monPC' = "send" => (IsTerminated(container) /\ monTerm' = container)
                /\ ~IsTerminated(container) => monPC' = "select"
          /\ (monPC = "select" /\ monPC' # "select") =>
                /\ monPC' \in {"check", "exited"}
                /\ monPC' = "exited" => (done \/ deadline \/ cancelled)
                /\ UNCHANGED chanVars]_vars

\* C30 as stated: on the first terminated observation the watcher emits one
\* terminated signal and exits.
C30_Original ==
    /\ C30_Monitoring
    /\ [][MonHandOff =>
              /\ monPC' = "exited"
              /\ chTerminated' = Append(chTerminated, monTerm)]_vars

\* C30, amended: the container watcher performs its first state query at
\* start, before any timer wait; a query that fails or reports a container
\* that has not terminated never produces a signal and never stops the
\* watcher, which keeps polling until it observes termination, the stop
\* signal, the deadline or cancellation; on the first terminated observation
\* it goes to the hand-off of one terminated signal, in which it either
\* emits the signal or, when the stop signal has been broadcast, may abandon
\* the hand-off; in both cases it exits.
C30_Amended ==
    /\ C30_Monitoring
    /\ [][MonHandOff =>
              /\ monPC' = "exited"
              /\ \/ chTerminated' = Append(chTerminated, monTerm)
                 \/ done /\ UNCHANGED chTerminated
              /\ UNCHANGED <<chResult, chError>>]_vars

\* the termination was observed and handed over while Run was still waiting
C30_Witness ==
    /\ monPC = "exited"
    /\ chTerminated = <<container>>
    /\ IsTerminated(container)
    /\ runPC = "select"
    /\ ~done

\* the termination was observed after the stop signal had been broadcast,
\* and the watcher exited without emitting it
C30_Abandoned ==
    /\ monPC = "exited"
    /\ monTerm = container
    /\ IsTerminated(container)
    /\ MonSent = 0
    /\ done

\* a step in which UpdateFromTimeout makes its container-state query
TimeoutQueryStep ==
    runPC = "UpdateFromTimeout" /\ Len(timeoutQueries') = Len(timeoutQueries) + 1

\* the query just made returned a status: UpdateFromTimeout is not at the
\* warning it logs for a failed query
TimeoutQuerySucceeded ==
    runPC' # "UpdateFromTimeout/warning"

\* C31: a Timeout-path query that is made while the container is terminated
\* and that succeeds never leads to AdapterTimeout: it hands the termination
\* to UpdateFromTerminatedContainer.  AdapterTimeout is published only on the
\* Timeout path by UpdateFromTimeout itself, so not when the container
\* watcher's signal was selected and not after the delegation; a termination
\* seen by the watcher or by the query is published as a termination
\* classification or from the artifact; and Run returns the timeout error
\* only after publishing AdapterTimeout.
C31_NoTimeoutForTerminated ==
    /\ [](\A i \in 1..Len(published) :
             published[i].cond.reason = ReasonAdapterTimeout =>
                 /\ resolution = <<"timeout">>
                 /\ published[i].by = "UpdateFromTimeout")
    /\ []((/\ published # <<>>
           /\ \/ resolution = <<"terminated">>
              \/ published[1].by = "UpdateFromTerminatedContainer") =>
              \/ published[1].by = "UpdateFromResult"
              \/ published[1].cond.reason \in ExitCodeReasons)
    /\ []((runPC = "returned" /\ reportErr.msg = TextTimeoutWaiting) =>
              published[1].cond.reason = ReasonAdapterTimeout)
    /\ [][(/\ TimeoutQueryStep
           /\ container.kind = "terminated"
           /\ TimeoutQuerySucceeded) =>
              /\ published' = published
              /\ runSig'.term = container
              /\ runPC' = "UpdateFromTerminatedContainer"]_vars
    /\ [][(runPC = "UpdateFromTerminatedContainer" /\ published' # published) =>
              /\ published'[Len(published')].cond.reason \in ExitCodeReasons
              /\ reportErr'.msg # TextTimeoutWaiting]_vars

\* C31 witness: the deadline passed with the container already killed for
\* memory and no signal buffered; the Timeout path's query returned the
\* termination, AdapterOOMKilled was published and the termination error,
\* not the timeout error, was returned.
C31_Witness ==
    /\ runPC = "returned"
    /\ deadline /\ ~cancelled
    /\ resolution = <<"timeout">>
    /\ container.kind = "terminated"
    /\ runSig.term = container
    /\ Len(timeoutQueries) = 1
    /\ Len(published) = 1
    /\ published[1].by = "UpdateFromTerminatedContainer"
    /\ published[1].cond.reason = ReasonAdapterOOMKilled
    /\ published[1].ok
    /\ ErrorsIs(reportErr, "reporter.terminated")
    /\ reportErr.msg # TextTimeoutWaiting

\* the position in css of the status GetAdapterContainerStatus has to
\* return for the name given: the first whose name is that name, or with no
\* name given the first whose name is not "status-reporter"; 0 if none
Wanted(css, name) ==
    LET hit(i) == IF name # <<>> THEN css[i].name = name
                  ELSE css[i].name # StatusReporterContainerName
    IN  IF \E i \in 1..Len(css) : hit(i)
        THEN CHOOSE i \in 1..Len(css) : hit(i) /\ \A j \in 1..(i - 1) : ~hit(j)
        ELSE 0

\* C32: GetAdapterContainerStatus returns either a status and no error or
\* an error and no status.  When the pod cannot be read it returns the
\* error of the read, wrapped.  With a name it returns the first status of
\* the pod with exactly that name, without one the first status in pod order
\* whose name is not "status-reporter"; if the pod has no such status it
\* returns an error.
C32_AdapterContainerStatus ==
    podPC = "returned" =>
        /\ (gacOut.err = Nil) # (gacOut.cs = NoContainerStatus)
        /\ podGot.err # Nil =>
              /\ gacOut.cs = NoContainerStatus
              /\ ErrorsIs(gacOut.err, podGot.err.chain[1])
              /\ HasPrefix(gacOut.err.msg, FmtFailedToGetPod)
        /\ podGot.err = Nil =>
              /\ podGot.pod = pod
              /\ Wanted(pod, adapterContainerName) # 0 =>
                    /\ gacOut.err = Nil
                    /\ gacOut.cs = pod[Wanted(pod, adapterContainerName)]
                    /\ adapterContainerName # <<>> =>
                          gacOut.cs.name = adapterContainerName
                    /\ adapterContainerName = <<>> =>
                          gacOut.cs.name # StatusReporterContainerName
              /\ Wanted(pod, adapterContainerName) = 0 =>
                    /\ gacOut.cs = NoContainerStatus
                    /\ gacOut.err # Nil
                    /\ ~ErrorsIs(gacOut.err, "k8s.GetPodStatus")

\* C32 witness: no name is given and the pod lists the status reporter
\* first, then the killed adapter, then a sidecar: the adapter's status is
\* returned.
C32_Witness ==
    /\ podPC = "returned"
    /\ adapterContainerName = <<>>
    /\ pod = <<ContainerStatus(StatusReporterContainerName, Running),
               ContainerStatus(TextAdapterName, Terminated(ContainerReasonOOMKilled, 137)),
               ContainerStatus(TextSidecarName, Running)>>
    /\ gacOut.err = Nil
    /\ gacOut.cs = pod[2]

\* C32 witness: the name given is not the name of any container of the pod
C32_WitnessMissing ==
    /\ podPC = "returned"
    /\ adapterContainerName = TextAdapterUpperName
    /\ podGot.err = Nil
    /\ Len(pod) = 3
    /\ ErrorsIs(gacOut.err, "k8s.ContainerNotFound")

\* C32 witness: the pod could not be read
C32_WitnessUnread ==
    /\ podPC = "returned"
    /\ ErrorsIs(gacOut.err, "k8s.NotFound")
    /\ gacOut.cs = NoContainerStatus

\* C33: with a valid artifact at the path, unchanged during the run, the
\* outcome of Run does not depend on which of the result signal and the
\* terminated signal the coordinator selects: on either path the published
\* condition is the one of the artifact's record, published by
\* UpdateFromResult, and Run returns nil if the publish succeeds and the
\* wrapped publish failure if it fails.
C33_Confluence ==
    (/\ fs \in ValidArtifacts
     /\ writes = 0
     /\ resolution \in {<<"result">>, <<"terminated">>}
     /\ HasPublished) =>
        /\ Len(published) = 1
        /\ published[1].by = "UpdateFromResult"
        /\ published[1].cond = ResultCondition(ParseFileOf[fs].res)
        /\ published[1].ok => reportErr = Nil
        /\ ~published[1].ok =>
              /\ ErrorsIs(reportErr, "publish")
              /\ reportErr = ResultUpdateError(PublishError)

\* C33 witness: both signals were sent before the deadline; the coordinator
\* selected the terminated signal, the result signal is still buffered, and
\* the artifact's success record was published.
C33_Witness ==
    /\ runPC = "returned"
    /\ fs = ArtifactSuccess /\ writes = 0
    /\ ~deadline /\ ~cancelled
    /\ resolution = <<"terminated">>
    /\ chResult # <<>>
    /\ published[1].ok
    /\ published[1].cond.status = ConditionStatusTrue
    /\ reportErr = Nil

\* C33 witness: the same two signals, the result signal selected
C33_WitnessResult ==
    /\ runPC = "returned"
    /\ fs = ArtifactSuccess /\ writes = 0
    /\ ~deadline /\ ~cancelled
    /\ resolution = <<"result">>
    /\ chTerminated # <<>>
    /\ published[1].ok
    /\ published[1].cond.status = ConditionStatusTrue
    /\ reportErr = Nil

\* C33 witness: the two signals are still buffered when the deadline ends
\* the blocking select, and the inner select takes the terminated one
C33_WitnessAtDeadline ==
    /\ runPC = "returned"
    /\ fs = ArtifactFailure /\ writes = 0
    /\ deadline
    /\ selectedAt = "inner"
    /\ resolution = <<"terminated">>
    /\ chResult # <<>>
    /\ published[1].cond.status = ConditionStatusFalse
    /\ published[1].cond.reason = ParseFileOf[fs].res.reason

\* the records of the valid artifacts whose status is "success", as ParseFile
\* returns them
SuccessRecords ==
    {ParseFileOf[f].res : f \in {g \in ValidArtifacts : g.status = StatusSuccess}}

\* C34: every published condition has status True or False, never Unknown
\* or another token.  It is True if and only if UpdateFromResult published
\* it from the record of a valid artifact whose status is "success"; a
\* record with status "failure" and every condition of UpdateFromError,
\* UpdateFromTerminatedContainer and UpdateFromTimeout is published False.
C34_TrueIffSuccessRecord ==
    \A i \in DOMAIN published :
        LET p == published[i]
        IN  /\ p.cond.status \in {ConditionStatusTrue, ConditionStatusFalse}
            /\ p.cond.status # ConditionStatusUnknown
            /\ (p.cond.status = ConditionStatusTrue) <=>
                   /\ p.by = "UpdateFromResult"
                   /\ runSig.res \in SuccessRecords
            /\ p.by = "UpdateFromResult" =>
                   /\ runSig.res.status \in {StatusSuccess, StatusFailure}
                   /\ runSig.res.status = StatusFailure =>
                          p.cond.status = ConditionStatusFalse
            /\ p.by # "UpdateFromResult" =>
                   /\ p.cond.reason \in ReasonVocabulary
                   /\ p.cond.status = ConditionStatusFalse

\* C34 witness: the record of a success artifact was published with status
\* True
C34_Witness ==
    /\ HasPublished
    /\ published[1].by = "UpdateFromResult"
    /\ runSig.res.status = StatusSuccess
    /\ published[1].cond.status = ConditionStatusTrue

\* C34 witness: the record of a failure artifact was published with status
\* False
C34_WitnessFailure ==
    /\ HasPublished
    /\ published[1].by = "UpdateFromResult"
    /\ runSig.res.status = StatusFailure
    /\ published[1].cond.status = ConditionStatusFalse

\* C34 witness: each of the conditions that are not derived from a record
\* is published with status False
C34_WitnessTimeout ==
    /\ HasPublished
    /\ published[1].cond.reason = ReasonAdapterTimeout
    /\ published[1].cond.status = ConditionStatusFalse

\* C35: UpdateJobStatus and the Timeout path's state query are called with
\* the caller's context, not with timeoutCtx: the context of such a call is
\* cancelled only if the caller has cancelled, so after a deadline that
\* passed without a cancellation every publish and every query of the
\* Timeout path is made with a live context.
C35_CallerContext ==
    /\ \A i \in DOMAIN published : published[i].ctxCancelled => cancelled
    /\ \A i \in DOMAIN timeoutQueries : timeoutQueries[i].ctxCancelled => cancelled
    /\ (deadline /\ ~cancelled) =>
          /\ \A i \in DOMAIN published : ~published[i].ctxCancelled
          /\ \A i \in DOMAIN timeoutQueries : ~timeoutQueries[i].ctxCancelled

\* C35 witness: the deadline passed, the caller did not cancel; the Timeout
\* path made its query and published AdapterTimeout, both with a context
\* that is not cancelled, and the publish succeeded.
C35_Witness ==
    /\ runPC = "returned"
    /\ deadline /\ ~cancelled
    /\ resolution = <<"timeout">>
    /\ Len(timeoutQueries) = 1 /\ ~timeoutQueries[1].ctxCancelled
    /\ Len(published) = 1 /\ ~published[1].ctxCancelled
    /\ published[1].by = "UpdateFromTimeout"
    /\ published[1].ok

\* C35 witness: a signal received after the deadline is published with a
\* live context as well
C35_WitnessSignal ==
    /\ deadline /\ ~cancelled
    /\ selectedAt = "inner"
    /\ resolution = <<"result">>
    /\ Len(published) = 1 /\ ~published[1].ctxCancelled
    /\ published[1].ok

\* Run has returned from a shutdown as C36 describes it: the caller's
\* context was cancelled before the deadline, no watcher signal was there,
\* the container is not terminated and the publish succeeded
ShutdownWhileWaiting ==
    /\ runPC = "returned"
    /\ cancelled /\ ~deadline
    /\ resolution = <<"timeout">>
    /\ ChannelsEmpty
    /\ container = Running
    /\ Len(published) = 1
    /\ published[1].ok

\* C36 (as claimed): after a shutdown that cancelled the run context while
\* the engine was waiting, with a publish that succeeded, Run returns nil or
\* an error matching context.Canceled, so that handleShutdown's exit code for
\* the value is 0.
C36_GracefulShutdownExitsZero ==
    ShutdownWhileWaiting =>
        /\ reportErr = Nil \/ ErrorsIs(reportErr, "context.Canceled")
        /\ ShutdownCode(reportErr) = 0

\* What Run returns instead: the timeout error, after publishing
\* AdapterTimeout with the cancelled context; handleShutdown's exit code for
\* it is 1.
C36_ShutdownExitsOne ==
    ShutdownWhileWaiting =>
        /\ published[1].cond.reason = ReasonAdapterTimeout
        /\ published[1].ctxCancelled
        /\ reportErr = TimeoutError
        /\ ~ErrorsIs(reportErr, "context.Canceled")
        /\ ShutdownCode(reportErr) = 1

\* a step in which UpdateJobStatus sends its UpdateStatus request
UpdateStatusStep ==
    ujPC = "update" /\ ujUpdates' = ujUpdates + 1

\* the job object of the request was read before another client's write
StaleRead ==
    jobExists /\ ujJob.version # jobVersion

\* the request was answered with a conflict: the attempt is repeated, or
\* the conflict is what the call returns
AnsweredConflict ==
    \/ ujPC' = "validate"
    \/ ujPC' = "returned" /\ ErrorsIs(ujErr', "k8s.Conflict")

\* What C37 says of every call: a write computed from a stale read is never
\* applied; an applied write keeps the conditions of the other types that
\* the Job holds at that moment, the other writers' included, and sets the
\* new condition; every attempt starts from a fresh read; and only a
\* conflict is followed by another attempt.
C37_Retry ==
    /\ [][(UpdateStatusStep /\ StaleRead) => UNCHANGED <<jobConditions, jobVersion>>]_vars
    /\ [][(UpdateStatusStep /\ jobConditions' # jobConditions) =>
              /\ ujJob.version = jobVersion
              /\ \A i \in DOMAIN jobConditions :
                    jobConditions[i].type # ujCondition.type =>
                        jobConditions'[i] = jobConditions[i]
              /\ \E i \in DOMAIN jobConditions' :
                    /\ jobConditions'[i].type = ujCondition.type
                    /\ Semantics(jobConditions'[i]) = Semantics(ujCondition)]_vars
    /\ [][(ujPC = "get" /\ ujPC' = "merge") =>
              ujJob' = [conditions |-> jobConditions, version |-> jobVersion]]_vars
    /\ [][(ujPC' = "validate" /\ ujPC # "validate" /\ ujCalls' = ujCalls) =>
              /\ UpdateStatusStep /\ StaleRead
              /\ ujSteps' = ujSteps - 1]_vars
    /\ [](ujPC = "returned" =>
              /\ ujGets <= DefaultBackoffSteps
              /\ (ujErr # Nil /\ ~ErrorsIs(ujErr, "k8s.Conflict")) =>
                    ujGets <= 1 + otherWrites
              /\ ErrorsIs(ujErr, "k8s.NotFound") => ~jobExists)

\* C37 (as claimed): whenever another client has modified the Job between
\* the read and the write of an attempt and the write is answered with a
\* conflict, the attempt is repeated from a fresh read.
C37_Original ==
    /\ C37_Retry
    /\ [][(UpdateStatusStep /\ StaleRead /\ AnsweredConflict) =>
              ujPC' = "validate"]_vars

\* C37 (amended): as C37, but the attempt is repeated only while the
\* default backoff has steps left: the conflict of the fourth attempt is
\* returned as the error of the call.
C37_Amended ==
    /\ C37_Retry
    /\ [][(UpdateStatusStep /\ StaleRead /\ AnsweredConflict) =>
              IF ujSteps > 1
              THEN ujPC' = "validate" /\ ujSteps' = ujSteps - 1
              ELSE /\ ujPC' = "returned"
                   /\ ujGets = DefaultBackoffSteps
                   /\ ujUpdates' = DefaultBackoffSteps]_vars

\* C37 witness: another client set the Failed condition between the read
\* and the write of the first attempt; the second attempt succeeded and the
\* Job holds the Failed condition and the reporter's.
C37_Witness ==
    /\ ujPC = "returned"
    /\ ujCalls = 1
    /\ ujErr = Nil
    /\ ujGets = 2 /\ ujUpdates = 2
    /\ otherWrites = 1
    /\ \E i \in DOMAIN jobConditions : jobConditions[i].type = JobTypeFailed
    /\ \E i \in DOMAIN jobConditions :
          /\ jobConditions[i].type = ujCondition.type
          /\ Semantics(jobConditions[i]) = Semantics(ujCondition)

\* Other clients wrote between the read and the write of each of the four
\* attempts: the call returned the conflict and the condition was not set.
C37_Exhausted ==
    /\ ujPC = "returned"
    /\ ujCalls = 1
    /\ ErrorsIs(ujErr, "k8s.Conflict")
    /\ ujGets = DefaultBackoffSteps /\ ujUpdates = DefaultBackoffSteps
    /\ otherWrites = DefaultBackoffSteps

\* C37 witness: the Job was deleted; the not-found error of the first read
\* was returned after one request
C37_WitnessNotFound ==
    /\ ujPC = "returned"
    /\ ujCalls = 1
    /\ ErrorsIs(ujErr, "k8s.NotFound")
    /\ ujGets = 1 /\ ujUpdates = 0

\* the text is not empty and neither starts nor ends with white space
Trimmed(t) ==
    /\ t # <<>>
    /\ \A w \in UnicodeSpaces : ~HasPrefix(t, w) /\ ~HasSuffix(t, w)

\* C38 (as claimed): a second Validate of a record that Validate has
\* accepted returns no error and leaves status, reason and message as the
\* first left them.
C38_Original ==
    recPC = "revalidated" =>
        /\ recAgain.err = Nil
        /\ recAgain.res = recOut.res

\* what a second Validate makes of the text t that the first one left in a
\* field with the given default and limit, whose given text was s
SecondNormalization(s, t, u, default, maxBytes) ==
    /\ Trimmed(u) /\ Len(u) <= maxBytes
    /\ Trimmed(t) => u = t
    /\ Len(s) <= maxBytes => Trimmed(t)
    /\ ~Trimmed(t) =>
          /\ Len(s) > maxBytes
          /\ Len(u) < Len(t) \/ t = <<>>
          /\ HasPrefix(t, u) \/ u = default

\* C38 (amended): a second Validate of a record that Validate has accepted
\* returns no error and leaves the status as it is; it leaves the reason
\* (the message) as it is whenever the first Validate left it without white
\* space at its ends, which is so for every given text within the limit;
\* when the truncation of a longer text has left white space at the end of
\* the field, or nothing at all, the second Validate trims it again and
\* replaces an empty rest by the default.
C38_Amended ==
    recPC = "revalidated" =>
        /\ recAgain.err = Nil
        /\ recAgain.res.status = recOut.res.status
        /\ SecondNormalization(recIn.reason, recOut.res.reason,
                               recAgain.res.reason, DefaultReason, maxReasonLength)
        /\ SecondNormalization(recIn.message, recOut.res.message,
                               recAgain.res.message, DefaultMessage, maxMessageLength)

\* C38 witness: a reason and a message longer than their limits were cut
\* by the first Validate, and the second left the record as it was.
C38_Witness ==
    /\ recPC = "revalidated"
    /\ recIn.reason = Repeat(maxReasonLength + 1)
    /\ recIn.message = Repeat(maxMessageLength - 1) \o <<195,169>> \o <<65>>
    /\ Len(recOut.res.reason) = maxReasonLength
    /\ Len(recOut.res.message) = maxMessageLength - 1
    /\ recAgain.res = recOut.res

\* A reason of 127 letters, a space and three more letters is cut after the
\* space by the first Validate; the second Validate removes the space.
C38_Retrimmed ==
    /\ recPC = "revalidated"
    /\ recIn.reason = Repeat(maxReasonLength - 1) \o <<32>> \o Repeat(3)
    /\ recOut.res.reason = Repeat(maxReasonLength - 1) \o <<32>>
    /\ recAgain.res.reason = Repeat(maxReasonLength - 1)

====
